---------------------------- MODULE Spec2Model ----------------------------
(* Sniffnet: the traffic-aggregation pipeline of networking/manage_packets.rs *)
(* and the session handling of gui/types/sniffer.rs.                         *)
(*                                                                         *)
(* Addresses are the parsed form of the textual addresses the code handles: *)
(* a tuple of 4 octets is an IPv4 address, a tuple of 8 hextets an IPv6     *)
(* address. IpAddr::to_string is injective, so equality of the texts the    *)
(* code compares is equality of the tuples.                                 *)
EXTENDS Integers, Sequences, FiniteSets, TLC

\* ------------------------------------------------------------------ bounds
MaxClock == 2       \* readings of Local::now() range over 0..MaxClock
MaxPackets == 3     \* frames taken from the capture
MaxResets == 1      \* cap on current_capture_id
MaxNotifications == 1   \* cap on the notifications logged and unread

\* --------------------------------------------------------------- addresses
\* Option::None of a port (a u16 otherwise) and of an address
NoPort == -1
NoAddr == <<>>

Lo4 == <<127, 0, 0, 1>>
Lo4b == <<127, 0, 0, 53>>
Lo6 == <<0, 0, 0, 0, 0, 0, 0, 1>>
Unspec4 == <<0, 0, 0, 0>>
Unspec6 == <<0, 0, 0, 0, 0, 0, 0, 0>>
MyAddr4 == <<172, 20, 10, 9>>
Peer4 == <<172, 20, 10, 10>>
Remote1 == <<8, 8, 8, 8>>
Remote2 == <<8, 8, 4, 4>>
Bcast4 == <<255, 255, 255, 255>>

\* pcap::Address: addr, netmask, broadcast_addr (dst_addr is never read)
MyIf4 == [addr |-> MyAddr4, netmask |-> <<255, 255, 255, 240>>,
          broadcast_addr |-> <<172, 20, 10, 15>>]
LoIf4 == [addr |-> Lo4, netmask |-> <<255, 0, 0, 0>>, broadcast_addr |-> NoAddr]

\* the address lists Device::list() can report for the sniffed adapter
DeviceLists == {<<>>, <<MyIf4>>}

\* ------------------------------------------------------------ pure helpers
IsV4(a) == Len(a) = 4
IsV6(a) == Len(a) = 8

\* IpAddr::is_loopback on the parsed address: 127.0.0.0/8 or ::1
is_loopback(address_to_lookup) ==
    \/ IsV4(address_to_lookup) /\ address_to_lookup[1] = 127
    \/ IsV6(address_to_lookup) /\ address_to_lookup = Lo6

\* my_interface_addresses.iter().map(|address| address.addr.to_string())
InterfaceAddrs(my_interface_addresses) ==
    {my_interface_addresses[i].addr : i \in DOMAIN my_interface_addresses}

\* the interface test placed before the loopback test
get_traffic_direction_swapped(source_ip, destination_ip, source_port, dest_port, my_interface_addresses) ==
    LET mine == InterfaceAddrs(my_interface_addresses) IN
    IF source_ip \in mine THEN "Outgoing"
    ELSE IF /\ is_loopback(source_ip) /\ is_loopback(destination_ip)
            /\ source_port # NoPort /\ dest_port # NoPort
         THEN IF source_port > dest_port THEN "Outgoing" ELSE "Incoming"
    ELSE IF source_ip # Unspec4 THEN "Incoming"
    ELSE IF destination_ip \notin mine THEN "Outgoing"
    ELSE "Incoming"

\* lines 321-356
get_traffic_direction(source_ip, destination_ip, source_port, dest_port, my_interface_addresses) ==
    LET mine == InterfaceAddrs(my_interface_addresses) IN
    IF /\ is_loopback(source_ip) /\ is_loopback(destination_ip)
       /\ source_port # NoPort /\ dest_port # NoPort
    THEN IF source_port > dest_port THEN "Outgoing" ELSE "Incoming"
    ELSE IF source_ip \in mine THEN "Outgoing"
    ELSE IF source_ip # Unspec4 THEN "Incoming"
    ELSE IF destination_ip \notin mine THEN "Outgoing"
    ELSE "Incoming"

\* the address of the other direction
get_address_to_lookup_reversed(key, traffic_direction) ==
    IF traffic_direction = "Outgoing" THEN key.address1 ELSE key.address2

get_address_to_lookup(key, traffic_direction) ==
    IF traffic_direction = "Outgoing" THEN key.address2 ELSE key.address1

\* ---------------------------------------------------------- classification
\* the text of an IPv6 address starts with the hexadecimal digits of its
\* first hextet unless that hextet is 0 (then it starts with "::" or "0:")
HextetTextStartsWithFF(h) ==
    \/ h = 255
    \/ h \in 4080..4095
    \/ h \in 65280..65535

\* every first octet from 224 up taken as multicast
is_multicast_address_from_224(address) ==
    IF IsV6(address)
    THEN HextetTextStartsWithFF(address[1])
    ELSE address[1] >= 224

is_multicast_address(address) ==
    IF IsV6(address)
    THEN HextetTextStartsWithFF(address[1])
    ELSE address[1] \in 224..239

\* only the configured broadcast addresses compared
is_broadcast_address_directed_only(address, my_interface_addresses) ==
    address \in {my_interface_addresses[i].broadcast_addr :
                    i \in DOMAIN my_interface_addresses}

\* only 255.255.255.255 compared
is_broadcast_address_limited_only(address, my_interface_addresses) ==
    address = Bcast4

is_broadcast_address(address, my_interface_addresses) ==
    LET my_broadcast_addresses ==
            {IF my_interface_addresses[i].broadcast_addr = NoAddr
             THEN Bcast4 ELSE my_interface_addresses[i].broadcast_addr :
                i \in DOMAIN my_interface_addresses}
    IN  \/ address = Bcast4
        \/ address \in my_broadcast_addresses

\* the direction not looked at
get_traffic_type_any_direction(destination_ip, my_interface_addresses, traffic_direction) ==
    IF is_multicast_address(destination_ip) THEN "Multicast"
    ELSE IF is_broadcast_address(destination_ip, my_interface_addresses)
         THEN "Broadcast"
    ELSE "Unicast"

get_traffic_type(destination_ip, my_interface_addresses, traffic_direction) ==
    IF traffic_direction = "Outgoing"
    THEN IF is_multicast_address(destination_ip) THEN "Multicast"
         ELSE IF is_broadcast_address(destination_ip, my_interface_addresses)
              THEN "Broadcast"
         ELSE "Unicast"
    ELSE "Unicast"

RECURSIVE BitAnd(_, _)
BitAnd(x, y) ==
    IF x = 0 \/ y = 0 THEN 0
    ELSE (x % 2) * (y % 2) + 2 * BitAnd(x \div 2, y \div 2)

\* the addresses compared without the netmask
SameSubnetUnmasked(netmask, local_addr, remote_addr) == local_addr = remote_addr

SameSubnet(netmask, local_addr, remote_addr) ==
    \A i \in DOMAIN netmask :
        BitAnd(netmask[i], local_addr[i]) = BitAnd(netmask[i], remote_addr[i])

\* the subnet comparison alone, without the link-local arms
is_local_connection_subnet_only(address_to_lookup, my_interface_addresses) ==
    \E i \in DOMAIN my_interface_addresses :
        LET address == my_interface_addresses[i] IN
        /\ Len(address.addr) = Len(address_to_lookup)
        /\ address.netmask # NoAddr
        /\ Len(address.netmask) = Len(address_to_lookup)
        /\ SameSubnet(address.netmask, address.addr, address_to_lookup)

is_local_connection(address_to_lookup, my_interface_addresses) ==
    \E i \in DOMAIN my_interface_addresses :
        LET address == my_interface_addresses[i] IN
        \/ /\ IsV4(address.addr) /\ IsV4(address_to_lookup)
           /\ \/ address_to_lookup[1] = 169 /\ address_to_lookup[2] = 254
              \/ /\ address.netmask # NoAddr /\ IsV4(address.netmask)
                 /\ SameSubnet(address.netmask, address.addr, address_to_lookup)
        \/ /\ IsV6(address.addr) /\ IsV6(address_to_lookup)
           /\ \/ address_to_lookup[1] = 65152
              \/ /\ address.netmask # NoAddr /\ IsV6(address.netmask)
                 /\ SameSubnet(address.netmask, address.addr, address_to_lookup)

\* ------------------------------------------------------------------- state
VARIABLES
    running_page,        \* Sniffer.running_page
    pcap_error,          \* Sniffer.pcap_error is Some(_)
    current_capture_id,  \* Sniffer.current_capture_id
    info_traffic,        \* the InfoTraffic behind Sniffer.info_traffic
    info_lock,           \* holder of the InfoTraffic mutex
    device_addresses,    \* MyDevice.addresses
    clock,               \* the latest reading of Local::now()
    threads,             \* the parse_packets threads and their position
    lookups,             \* the reverse_dns_lookup threads in flight
    taken,               \* frames taken from the capture so far
    spawned,             \* reverse_dns_lookup threads spawned so far
    applied,             \* history: per key, the calls applied to this InfoTraffic
    attributed,          \* history: per address, the data booked to this InfoTraffic
    gui,                 \* the fields of the Sniffer its messages read and write
    probe                \* the pure function under evaluation, its input and result

vars == <<running_page, pcap_error, current_capture_id, info_traffic, info_lock,
          device_addresses, clock, threads, lookups, taken,
          spawned, applied, attributed, gui, probe>>

Threads == {1, 2}

\* AddressPortPair
Key1 == [address1 |-> MyAddr4, port1 |-> 50000,
         address2 |-> Remote1, port2 |-> 443, protocol |-> "TCP"]
Key2 == [address1 |-> Remote2, port1 |-> 443,
         address2 |-> MyAddr4, port2 |-> 50001, protocol |-> "TCP"]
Keys == {Key1, Key2}
\* an ICMP exchange: analyze_transport_header sets both ports to None
KeyIcmp == [address1 |-> MyAddr4, port1 |-> NoPort,
            address2 |-> Remote1, port2 |-> NoPort, protocol |-> "ICMP"]
Bytes == {1, 2}

\* ------------------------------------------------------------ map helpers
Put(f, k, v) == [x \in DOMAIN f \cup {k} |-> IF x = k THEN v ELSE f[x]]
Remove(f, k) == [x \in DOMAIN f \ {k} |-> f[x]]
EmptyMap == [x \in {} |-> 0]

\* DataInfo, its Default and its AddAssign
DataInfoZero == [bytes |-> 0, packets |-> 0]
DataInfoAdd(a, b) == [bytes |-> a.bytes + b.bytes, packets |-> a.packets + b.packets]
new_with_first_packet(bytes) == [bytes |-> bytes, packets |-> 1]

\* InfoTraffic::new()
InfoTrafficNew ==
    [map |-> EmptyMap,
     addresses_resolved |-> EmptyMap,
     hosts |-> EmptyMap,
     addresses_waiting_resolution |-> EmptyMap,
     favorite_hosts |-> {},
     favorites_last_interval |-> {},
     tot_packets |-> 0]

FreeLock == [kind |-> "free", n |-> 0]
ThreadLock(t) == [kind |-> "thread", n |-> t]
LookupLock(n) == [kind |-> "lookup", n |-> n]

\* TrafficDirection::default()
DefaultDirection == "Incoming"

NoPacket == [key |-> Key1, bytes |-> 0, now |-> 0, first |-> FALSE,
             dir |-> DefaultDirection, mac |-> <<"", "">>, app |-> "",
             icmp |-> ""]
ThreadNone == [pc |-> "none", id |-> 0, pkt |-> NoPacket]

AppliedZero == [k \in Keys \cup {KeyIcmp} |-> [n |-> 0, sum |-> 0, last |-> 0, inserts |-> 0]]

\* ----------------------------------------------------- rDNS and databases
\* lookup_addr on success; the names are those of the environment
RDnsName(a) ==
    IF a = Remote1 THEN <<"dns", "google">>
    ELSE IF a = Remote2 THEN <<"fra", "dns", "google">>
    ELSE <<"host", "lan">>

\* lookup_addr succeeds with a name for the remote addresses only
RDnsAnswers(a) == a \in {Remote1, Remote2}

\* get_country and get_asn: (country, asn) of the address in the databases
GeoOf(a) ==
    IF a \in {Remote1, Remote2} THEN [country |-> "US", asn |-> "GOOGLE"]
    ELSE [country |-> "ZZ", asn |-> ""]

\* r_dns: the name found, or the literal address when the lookup fails
RDnsFound(a) == [literal |-> NoAddr, labels |-> RDnsName(a)]
RDnsLiteral(a) == [literal |-> a, labels |-> <<>>]

\* get_domain_from_r_dns: a literal address stays, a name keeps its last
\* two labels
get_domain_from_r_dns(r_dns) ==
    IF r_dns.literal # NoAddr \/ Len(r_dns.labels) < 2 THEN r_dns
    ELSE [literal |-> NoAddr,
          labels |-> SubSeq(r_dns.labels, Len(r_dns.labels) - 1, Len(r_dns.labels))]

NewHost(a, r_dns) ==
    [domain |-> get_domain_from_r_dns(r_dns),
     asn |-> GeoOf(a).asn, country |-> GeoOf(a).country]

\* the hosts a user marks or unmarks as favorite
FavoriteInputs == {NewHost(Remote1, RDnsFound(Remote1))}

\* ------------------------------------------------- the fields of the Sniffer
\* MyModal and SettingsPage; "None" is Option::None
Modals == {"Quit", "ClearAll"}
SettingsPages == {"Notifications", "Appearance", "General"}
RunningPages == {"Overview", "Inspect", "Notifications"}

\* RunTimeData::new(): the counters of both directions together, and the
\* number of logged notifications
RunTimeDataNew == [tot_packets |-> 0, logged_notifications |-> 0]

\* String::len of the waiting dots, one byte each
Dots(n) == [i \in 1..n |-> "."]

\* Sniffer::new; focus_elapsed tells whether the focus timeout of
\* TimingEvents has run out since the window was last focused
GuiNew ==
    [modal |-> "None",
     settings_page |-> "None",
     last_opened_setting |-> "Notifications",
     waiting |-> Dots(1),
     unread_notifications |-> 0,
     page_number |-> 1,
     runtime_data |-> RunTimeDataNew,
     focus_elapsed |-> FALSE]

\* ------------------------------------------------------------------- Init
MainInit ==
    /\ gui = GuiNew
    /\ running_page = "Init"
    /\ pcap_error = FALSE
    /\ current_capture_id = 0
    /\ info_traffic = InfoTrafficNew
    /\ info_lock = FreeLock
    /\ device_addresses = <<>>
    /\ clock = 0
    /\ threads = [t \in Threads |-> ThreadNone]
    /\ lookups = {}
    /\ taken = 0
    /\ spawned = 0
    /\ applied = AppliedZero
    /\ attributed = EmptyMap

NoProbe == [op |-> "none"]

Init == MainInit /\ probe = NoProbe

\* ------------------------------------------------------------- the Sniffer
FreeThreads == {t \in Threads : threads[t].pc = "none"}

\* a start that keeps the counters of the session before
start_runtime_data_kept(g) == g

\* line 373: self.runtime_data = RunTimeData::new()
start_runtime_data(g) == [g EXCEPT !.runtime_data = RunTimeDataNew]

\* get_capture_result: (Some(error), None) when the opening fails,
\* (None, Some(capture)) otherwise
get_capture_result(opened) == [pcap_error |-> ~opened, cap |-> opened]

SpawnCapture(thr, id) ==
    LET free == {t \in Threads : thr[t].pc = "none"} IN
    IF free = {} THEN thr
    ELSE [thr EXCEPT ![CHOOSE x \in free : \A y \in free : x <= y] =
             [pc |-> "wait", id |-> id, pkt |-> NoPacket]]

\* a capture thread spawned whatever the opening gave
spawn_parse_packets_unconditional(thr, error, id) == SpawnCapture(thr, id)

\* lines 379-401: thread_parse_packets is spawned if pcap_error.is_none()
spawn_parse_packets(thr, error, id) ==
    IF error THEN thr ELSE SpawnCapture(thr, id)

\* Message::Start, sent from the initial page
Start ==
    /\ running_page = "Init"
    /\ info_lock = FreeLock
    /\ device_addresses' \in DeviceLists
    /\ info_traffic' = InfoTrafficNew
    /\ running_page' = "Overview"
    /\ gui' = start_runtime_data(gui)
    /\ applied' = AppliedZero
    /\ attributed' = EmptyMap
    /\ \E opened \in BOOLEAN :
        LET result == get_capture_result(opened) IN
        /\ opened => FreeThreads # {}
        /\ pcap_error' = result.pcap_error
        /\ threads' = spawn_parse_packets(threads, result.pcap_error,
                                          current_capture_id)
    /\ UNCHANGED <<current_capture_id, info_lock, clock, lookups,
                   taken, spawned, probe>>

\* a reset that leaves the capture id as it is
next_capture_id_same(id) == id

\* line 407: self.current_capture_id += 1
next_capture_id(id) == id + 1

\* Message::Reset, sent while a capture is shown; it ends with
\* Message::HideModal
Reset ==
    /\ running_page # "Init"
    /\ current_capture_id < MaxResets
    /\ running_page' = "Init"
    /\ current_capture_id' = next_capture_id(current_capture_id)
    /\ pcap_error' = FALSE
    /\ gui' = [gui EXCEPT !.unread_notifications = 0, !.page_number = 1,
                          !.modal = "None"]
    /\ UNCHANGED <<info_traffic, info_lock, device_addresses, clock,
                   threads, lookups, taken, spawned, applied, attributed, probe>>

\* a removal that empties favorite_hosts
add_or_remove_favorite_cleared(it, host, add) ==
    [it EXCEPT
       !.favorite_hosts = IF add THEN @ \cup {host} ELSE {},
       !.hosts = IF host \in DOMAIN @
                 THEN [@ EXCEPT ![host].is_favorite = add] ELSE @]

\* Message::AddOrRemoveFavorite(host, add)
add_or_remove_favorite(it, host, add) ==
    [it EXCEPT
       !.favorite_hosts = IF add THEN @ \cup {host} ELSE @ \ {host},
       !.hosts = IF host \in DOMAIN @
                 THEN [@ EXCEPT ![host].is_favorite = add] ELSE @]

\* history: the last message of each host, where the messages are recorded
RecordFavorite(q, host, add) ==
    IF q.op = "favorites"
    THEN [q EXCEPT !.last[host] = IF add THEN "add" ELSE "remove"]
    ELSE q

AddOrRemoveFavorite(host, add) ==
    /\ info_lock = FreeLock
    /\ info_traffic' = add_or_remove_favorite(info_traffic, host, add)
    /\ probe' = RecordFavorite(probe, host, add)
    /\ UNCHANGED <<gui, running_page, pcap_error, current_capture_id, info_lock,
                   device_addresses, clock, threads, lookups,
                   taken, spawned, applied, attributed>>

\* Message::TickRun: refresh_data
refresh_data(it) ==
    IF it.tot_packets = 0 THEN it
    ELSE [it EXCEPT !.favorites_last_interval = {}]

\* dots that start again once the string holds two bytes
update_waiting_dots_two(g) ==
    LET emptied == IF Len(g.waiting) > 1 THEN Dots(0) ELSE g.waiting
    IN [g EXCEPT !.waiting = Dots(Len(emptied) + 1)]

\* update_waiting_dots: the string starts again once it holds three bytes
update_waiting_dots(g) ==
    LET emptied == IF Len(g.waiting) > 2 THEN Dots(0) ELSE g.waiting
    IN [g EXCEPT !.waiting = Dots(Len(emptied) + 1)]

\* notify_and_log: the number of notifications of this tick
EmittedInputs(g) ==
    IF /\ g.runtime_data.logged_notifications < MaxNotifications
       /\ g.unread_notifications < MaxNotifications
    THEN {0, 1} ELSE {0}

\* a refresh that counts the notifications of the tick as unread on every page
refresh_runtime_data_always_unread(g, it, page, emitted) ==
    LET logged == g.runtime_data.logged_notifications + emitted
        counted == [g EXCEPT
                      !.runtime_data = [tot_packets |-> it.tot_packets,
                                        logged_notifications |-> logged],
                      !.unread_notifications = @ + emitted]
    IN IF page = "Notifications" /\ logged = 0
       THEN update_waiting_dots(counted) ELSE counted

\* refresh_data, the counters copied and the notifications of the tick counted
refresh_runtime_data(g, it, page, emitted) ==
    LET logged == g.runtime_data.logged_notifications + emitted
        counted == [g EXCEPT
                      !.runtime_data = [tot_packets |-> it.tot_packets,
                                        logged_notifications |-> logged],
                      !.unread_notifications =
                          IF page # "Notifications" THEN @ + emitted ELSE @]
    IN IF page = "Notifications" /\ logged = 0
       THEN update_waiting_dots(counted) ELSE counted

TickRun ==
    /\ running_page # "Init"
    /\ info_lock = FreeLock
    /\ info_traffic' = refresh_data(info_traffic)
    /\ IF info_traffic.tot_packets = 0
       THEN gui' = update_waiting_dots(gui)
       ELSE \E emitted \in EmittedInputs(gui) :
               gui' = refresh_runtime_data(gui, info_traffic, running_page, emitted)
    /\ UNCHANGED <<running_page, pcap_error, current_capture_id, info_lock,
                   device_addresses, clock, threads, lookups,
                   taken, spawned, applied, attributed, probe>>

\* ------------------------------------------------- modify_or_insert_in_map
MacInputs == {<<"aa:aa", "bb:bb">>}
AppInputs == {"HTTPS"}
IcmpInputs == {"default"}

\* an update that stores the byte count of the frame instead of adding it
ModifyEntryBytesStored(info, key, pkt) ==
    [info EXCEPT
       !.transmitted_bytes = pkt.bytes,
       !.transmitted_packets = @ + 1,
       !.final_timestamp = pkt.now]

\* an update that also stores the direction of the call (the default one when
\* the key was found at line 176)
ModifyEntryDirectionStored(info, key, pkt) ==
    [info EXCEPT
       !.transmitted_bytes = @ + pkt.bytes,
       !.transmitted_packets = @ + 1,
       !.final_timestamp = pkt.now,
       !.traffic_direction = pkt.dir]

\* an update that also stores the MAC addresses and the application protocol
\* of the call
ModifyEntryIdentityStored(info, key, pkt) ==
    [info EXCEPT
       !.transmitted_bytes = @ + pkt.bytes,
       !.transmitted_packets = @ + 1,
       !.final_timestamp = pkt.now,
       !.mac_address1 = pkt.mac[1],
       !.mac_address2 = pkt.mac[2],
       !.app_protocol = pkt.app]

\* an update that counts the ICMP type as if it were the first of its kind
ModifyEntryIcmpInserted(info, key, pkt) ==
    [info EXCEPT
       !.transmitted_bytes = @ + pkt.bytes,
       !.transmitted_packets = @ + 1,
       !.final_timestamp = pkt.now,
       !.icmp_types = IF key.protocol = "ICMP" THEN Put(@, pkt.icmp, 1) ELSE @]

\* .and_modify(|info| ...)
ModifyEntry(info, key, pkt) ==
    [info EXCEPT
       !.transmitted_bytes = @ + pkt.bytes,
       !.transmitted_packets = @ + 1,
       !.final_timestamp = pkt.now,
       !.icmp_types = IF key.protocol = "ICMP"
                      THEN Put(@, pkt.icmp, IF pkt.icmp \in DOMAIN @
                                            THEN @[pkt.icmp] + 1 ELSE 1)
                      ELSE @]

\* .or_insert_with(|| InfoAddressPortPair {...})
NewEntry(key, pkt) ==
    [mac_address1 |-> pkt.mac[1],
     mac_address2 |-> pkt.mac[2],
     transmitted_bytes |-> pkt.bytes,
     transmitted_packets |-> 1,
     initial_timestamp |-> pkt.now,
     final_timestamp |-> pkt.now,
     app_protocol |-> pkt.app,
     traffic_direction |-> pkt.dir,
     icmp_types |-> IF key.protocol = "ICMP"
                    THEN Put(EmptyMap, pkt.icmp, 1) ELSE EmptyMap]

\* the answer of line 176 used again instead of the entry API: a call that
\* found the key absent inserts
KeyPresentAsChecked(map, key, pkt) == key \in DOMAIN map /\ ~pkt.first

\* info_traffic.map.entry(key): occupied or vacant, under the lock of line 202
KeyPresent(map, key, pkt) == key \in DOMAIN map

UpsertEntry(map, key, pkt) ==
    IF KeyPresent(map, key, pkt)
    THEN Put(map, key, ModifyEntry(map[key], key, pkt))
    ELSE Put(map, key, NewEntry(key, pkt))

\* a call that ends without the favorite check
FavoritesAfterPacketSkipped(it, key, new_info) == it.favorites_last_interval

\* the favorite check that ends the critical section
FavoritesAfterPacket(it, key, new_info) ==
    LET a == get_address_to_lookup(key, new_info.traffic_direction) IN
    IF /\ a \in DOMAIN it.addresses_resolved
       /\ it.addresses_resolved[a].host \in it.favorite_hosts
    THEN it.favorites_last_interval \cup {it.addresses_resolved[a].host}
    ELSE it.favorites_last_interval

\* the mutex guard of the condition of line 176 kept until the end of the call
LockAfterCheckKept(t) == ThreadLock(t)

\* the mutex guard of the condition of line 176 is a temporary: it is dropped
\* before the block of the if runs
LockAfterCheck(t) == FreeLock

\* parse_packets: the thread leaves when its capture id is stale
ThreadExit(t) ==
    /\ threads[t].pc = "wait"
    /\ threads[t].id # current_capture_id
    /\ threads' = [threads EXCEPT ![t] = ThreadNone]
    /\ UNCHANGED <<gui, running_page, pcap_error, current_capture_id, info_traffic,
                   info_lock, device_addresses, clock, lookups,
                   taken, spawned, applied, attributed, probe>>

\* parse_packets takes a frame and calls modify_or_insert_in_map, which reads
\* the time first
NextPacketOf(t, key_inputs, byte_inputs, elapsed, mac_inputs, app_inputs, icmp_inputs) ==
    /\ threads[t].pc = "wait"
    /\ threads[t].id = current_capture_id
    /\ taken < MaxPackets
    /\ taken' = taken + 1
    /\ clock' \in {c \in {clock + e : e \in elapsed} : c <= MaxClock}
    /\ \E key \in key_inputs, bytes \in byte_inputs, mac \in mac_inputs,
          app \in app_inputs, icmp \in icmp_inputs :
         threads' = [threads EXCEPT ![t].pc = "check",
                        ![t].pkt = [key |-> key, bytes |-> bytes, now |-> clock',
                                    first |-> FALSE, dir |-> DefaultDirection,
                                    mac |-> mac, app |-> app, icmp |-> icmp]]
    /\ UNCHANGED <<gui, running_page, pcap_error, current_capture_id, info_traffic,
                   info_lock, device_addresses, lookups, spawned, applied,
                   attributed, probe>>

\* the same, with the one ICMP type of the model
NextPacketWith(t, key_inputs, byte_inputs, elapsed, mac_inputs, app_inputs) ==
    NextPacketOf(t, key_inputs, byte_inputs, elapsed, mac_inputs, app_inputs, IcmpInputs)

\* the same, with the MAC addresses and the application protocol of the model
NextPacket(t, key_inputs, byte_inputs, elapsed) ==
    NextPacketWith(t, key_inputs, byte_inputs, elapsed, MacInputs, AppInputs)

\* line 176: is the key in the map?
MoCheck(t) ==
    /\ threads[t].pc = "check"
    /\ info_lock = FreeLock
    /\ LET first == threads[t].pkt.key \notin DOMAIN info_traffic.map IN
       threads' = [threads EXCEPT ![t].pc = IF first THEN "devlist" ELSE "apply",
                                  ![t].pkt.first = first]
    /\ info_lock' = LockAfterCheck(t)
    /\ UNCHANGED <<gui, running_page, pcap_error, current_capture_id, info_traffic,
                   device_addresses, clock, lookups, taken,
                   spawned, applied, attributed, probe>>

\* lines 180-199: Device::list() and the direction of a first packet
MoDeviceList(t) ==
    /\ threads[t].pc = "devlist"
    /\ \E my_interface_addresses \in DeviceLists :
        /\ device_addresses' = my_interface_addresses
        /\ LET key == threads[t].pkt.key IN
           threads' = [threads EXCEPT ![t].pc = "apply",
                         ![t].pkt.dir = get_traffic_direction(
                             key.address1, key.address2, key.port1, key.port2,
                             my_interface_addresses)]
    /\ UNCHANGED <<gui, running_page, pcap_error, current_capture_id, info_traffic,
                   info_lock, clock, lookups, taken, spawned,
                   applied, attributed, probe>>

\* lines 202-247: the update under the lock; new_info is returned
MoApply(t) ==
    /\ threads[t].pc = "apply"
    /\ info_lock = FreeLock
    /\ LET key == threads[t].pkt.key
           pkt == threads[t].pkt
           map == UpsertEntry(info_traffic.map, key, pkt)
           new_info == map[key]
           a == applied[key]
       IN /\ info_traffic' =
                [info_traffic EXCEPT
                   !.map = map,
                   !.favorites_last_interval =
                       FavoritesAfterPacket(info_traffic, key, new_info)]
          /\ threads' = [threads EXCEPT ![t].pc = "book",
                                        ![t].pkt.dir = new_info.traffic_direction]
          /\ applied' = [applied EXCEPT ![key] =
                [n |-> a.n + 1, sum |-> a.sum + pkt.bytes, last |-> pkt.now,
                 inserts |-> IF KeyPresent(info_traffic.map, key, pkt)
                             THEN a.inserts ELSE a.inserts + 1]]
    /\ UNCHANGED <<gui, running_page, pcap_error, current_capture_id, info_lock,
                   device_addresses, clock, lookups, taken,
                   spawned, attributed, probe>>

\* ---------------------------------------------- parse_packets, after the call
\* the data of the frame goes to the host of the address to look up when it is
\* resolved, to its pending entry when it waits, and to a new pending entry
\* (with a new reverse_dns_lookup thread) when the address is new
BookPacket(it, a, bytes) ==
    LET counted == [it EXCEPT !.tot_packets = @ + 1] IN
    IF a \in DOMAIN it.addresses_resolved
    THEN LET host == it.addresses_resolved[a].host IN
         IF host \in DOMAIN it.hosts
         THEN [counted EXCEPT !.hosts[host].data_info =
                   DataInfoAdd(@, new_with_first_packet(bytes))]
         ELSE counted
    ELSE IF a \in DOMAIN it.addresses_waiting_resolution
    THEN [counted EXCEPT !.addresses_waiting_resolution[a] =
              DataInfoAdd(@, new_with_first_packet(bytes))]
    ELSE [counted EXCEPT !.addresses_waiting_resolution =
              Put(@, a, new_with_first_packet(bytes))]

NewLookup(n, id, key, dir) ==
    [n |-> n, id |-> id, key |-> key, dir |-> dir, pc |-> "resolve",
     r_dns |-> RDnsLiteral(NoAddr), host |-> NewHost(NoAddr, RDnsLiteral(NoAddr)),
     is_loopback |-> FALSE, is_local |-> FALSE, traffic_type |-> "Unicast",
     other_data |-> DataInfoZero]

PpBook(t) ==
    /\ threads[t].pc = "book"
    /\ info_lock = FreeLock
    /\ LET pkt == threads[t].pkt
           a == get_address_to_lookup(pkt.key, pkt.dir)
           new == /\ a \notin DOMAIN info_traffic.addresses_resolved
                  /\ a \notin DOMAIN info_traffic.addresses_waiting_resolution
       IN /\ info_traffic' = BookPacket(info_traffic, a, pkt.bytes)
          /\ attributed' = Put(attributed, a,
                DataInfoAdd(IF a \in DOMAIN attributed THEN attributed[a]
                            ELSE DataInfoZero, new_with_first_packet(pkt.bytes)))
          /\ IF new
             THEN /\ spawned' = spawned + 1
                  /\ lookups' = lookups \cup
                        {NewLookup(spawned + 1, threads[t].id, pkt.key, pkt.dir)}
             ELSE UNCHANGED <<spawned, lookups>>
    /\ threads' = [threads EXCEPT ![t].pc = "wait", ![t].pkt = NoPacket]
    /\ UNCHANGED <<gui, running_page, pcap_error, current_capture_id, info_lock,
                   device_addresses, clock, taken, applied, probe>>

\* ------------------------------------------------------ reverse_dns_lookup
\* lines 258-287: the address list is read, then the rDNS, country and ASN
\* lookups run; a failed or empty rDNS answer gives the literal address
RdlResolve(r) ==
    /\ r \in lookups /\ r.pc = "resolve"
    /\ LET a == get_address_to_lookup(r.key, r.dir)
           r_dns == IF RDnsAnswers(a) THEN RDnsFound(a) ELSE RDnsLiteral(a)
       IN lookups' = (lookups \ {r}) \cup
             {[r EXCEPT !.pc = "ready",
                        !.r_dns = r_dns,
                        !.host = NewHost(a, r_dns),
                        !.is_loopback = is_loopback(a),
                        !.is_local = is_local_connection(a, device_addresses),
                        !.traffic_type = get_traffic_type(a, device_addresses, r.dir)]}
    /\ UNCHANGED <<gui, running_page, pcap_error, current_capture_id, info_traffic,
                   info_lock, device_addresses, clock, threads,
                   taken, spawned, applied, attributed, probe>>

\* the pending data read with get instead of remove
RemoveWaitingKept(it, a) == it

\* lines 291-294: addresses_waiting_resolution.remove(&address_to_lookup)
RemoveWaiting(it, a) ==
    [it EXCEPT !.addresses_waiting_resolution = Remove(@, a)]

\* lines 289-294: the lock is taken and the pending data of the address removed
RdlLockAndRemove(r) ==
    /\ r \in lookups /\ r.pc = "ready"
    /\ info_lock = FreeLock
    /\ info_lock' = LookupLock(r.n)
    /\ LET a == get_address_to_lookup(r.key, r.dir)
           w == info_traffic.addresses_waiting_resolution
       IN /\ lookups' = (lookups \ {r}) \cup
                {[r EXCEPT !.pc = "removed",
                           !.other_data = IF a \in DOMAIN w THEN w[a]
                                          ELSE DataInfoZero]}
          /\ info_traffic' = RemoveWaiting(info_traffic, a)
    /\ UNCHANGED <<gui, running_page, pcap_error, current_capture_id, device_addresses, clock, threads, taken, spawned, applied,
                   attributed, probe>>

\* lines 296-298
RdlInsertResolved(r) ==
    /\ r \in lookups /\ r.pc = "removed"
    /\ info_lock = LookupLock(r.n)
    /\ lookups' = (lookups \ {r}) \cup {[r EXCEPT !.pc = "inserted"]}
    /\ info_traffic' = [info_traffic EXCEPT !.addresses_resolved =
            Put(@, get_address_to_lookup(r.key, r.dir),
                [r_dns |-> r.r_dns, host |-> r.host])]
    /\ UNCHANGED <<gui, running_page, pcap_error, current_capture_id, info_lock,
                   device_addresses, clock, threads, taken,
                   spawned, applied, attributed, probe>>

\* a merge that inserts a new DataInfoHost over the one of the host
UpsertHostReplaced(hosts, r) ==
    Put(hosts, r.host,
        [data_info |-> DataInfoAdd(IF r.host \in DOMAIN hosts
                                   THEN hosts[r.host].data_info
                                   ELSE DataInfoZero, r.other_data),
         is_favorite |-> FALSE,
         is_loopback |-> r.is_loopback, is_local |-> r.is_local,
         traffic_type |-> r.traffic_type])

\* a merge that stores the data of this address over the host's counters
UpsertHostOverwrite(hosts, r) ==
    Put(hosts, r.host,
        [data_info |-> r.other_data,
         is_favorite |-> IF r.host \in DOMAIN hosts
                         THEN hosts[r.host].is_favorite ELSE FALSE,
         is_loopback |-> r.is_loopback, is_local |-> r.is_local,
         traffic_type |-> r.traffic_type])

\* lines 299-311: hosts.entry(new_host).and_modify(..).or_insert_with(..)
UpsertHost(hosts, r) ==
    IF r.host \in DOMAIN hosts
    THEN [hosts EXCEPT ![r.host].data_info = DataInfoAdd(@, r.other_data)]
    ELSE Put(hosts, r.host,
             [data_info |-> r.other_data, is_favorite |-> FALSE,
              is_loopback |-> r.is_loopback, is_local |-> r.is_local,
              traffic_type |-> r.traffic_type])

\* lines 299-317: the host is upserted, the favorite noted, the lock dropped
RdlUpsertAndUnlock(r) ==
    /\ r \in lookups /\ r.pc = "inserted"
    /\ info_lock = LookupLock(r.n)
    /\ info_lock' = FreeLock
    /\ lookups' = lookups \ {r}
    /\ info_traffic' = [info_traffic EXCEPT
            !.hosts = UpsertHost(@, r),
            !.favorites_last_interval =
                IF r.host \in info_traffic.favorite_hosts
                THEN @ \cup {r.host} ELSE @]
    /\ UNCHANGED <<gui, running_page, pcap_error, current_capture_id, device_addresses, clock, threads, taken, spawned, applied,
                   attributed, probe>>

\* ------------------------------------------------------------------- Next
\* a capture thread handling its frames
PacketCalls(key_inputs, byte_inputs, elapsed) ==
    \/ \E t \in Threads : NextPacket(t, key_inputs, byte_inputs, elapsed)
    \/ \E t \in Threads : MoCheck(t)
    \/ \E t \in Threads : MoDeviceList(t)
    \/ \E t \in Threads : MoApply(t)
    \/ \E t \in Threads : PpBook(t)

\* the capture threads
Capture(key_inputs, byte_inputs, elapsed) ==
    \/ \E t \in Threads : ThreadExit(t)
    \/ PacketCalls(key_inputs, byte_inputs, elapsed)

\* the reverse_dns_lookup threads
Resolution ==
    \/ \E r \in lookups : RdlResolve(r)
    \/ \E r \in lookups : RdlLockAndRemove(r)
    \/ \E r \in lookups : RdlInsertResolved(r)
    \/ \E r \in lookups : RdlUpsertAndUnlock(r)

\* sessions, capture, resolution and favorites
Next ==
    \/ Start
    \/ Reset
    \/ \E host \in FavoriteInputs, add \in BOOLEAN : AddOrRemoveFavorite(host, add)
    \/ Capture({Key1}, {1}, {1})
    \/ Resolution

Spec == Init /\ [][Next]_vars

\* ------------------------------------------ get_traffic_direction, evaluated
DirAddresses == {Lo4, Lo4b, Lo6, Unspec4, Unspec6, MyAddr4, Peer4, Remote1}
DirPorts == {NoPort, 99, 443}
DirInterfaces == {<<>>, <<MyIf4>>, <<LoIf4>>, <<MyIf4, LoIf4>>}

DirProbes ==
    [op : {"get_traffic_direction"}, source_ip : DirAddresses,
     destination_ip : DirAddresses, source_port : DirPorts, dest_port : DirPorts,
     my_interface_addresses : DirInterfaces, out : {"pending"}]

InitDir == MainInit /\ probe \in DirProbes

ApplyDirection ==
    /\ probe.op = "get_traffic_direction"
    /\ probe.out = "pending"
    /\ probe' = [probe EXCEPT !.out = get_traffic_direction(
                    probe.source_ip, probe.destination_ip, probe.source_port,
                    probe.dest_port, probe.my_interface_addresses)]
    /\ UNCHANGED <<gui, running_page, pcap_error, current_capture_id, info_traffic,
                   info_lock, device_addresses, clock, threads, lookups, taken,
                   spawned, applied, attributed>>

NextDir == ApplyDirection

SpecDir == InitDir /\ [][NextDir]_vars

DirDone == probe.op = "get_traffic_direction" /\ probe.out # "pending"
DirMine == InterfaceAddrs(probe.my_interface_addresses)
DirRule1 ==
    /\ is_loopback(probe.source_ip) /\ is_loopback(probe.destination_ip)
    /\ probe.source_port # NoPort /\ probe.dest_port # NoPort
DirRule2 == probe.source_ip \in DirMine
DirRule3 == probe.source_ip # Unspec4

\* C10: get_traffic_direction returns the outcome of the first matching rule:
\* (1) a loopback pair with both ports is Outgoing exactly when the source port
\* is greater than the destination port (equal ports: Incoming); otherwise
\* (2) a source among the interface addresses is Outgoing; otherwise (3) a
\* source other than 0.0.0.0 is Incoming; otherwise (4) the packet is Outgoing
\* exactly when the destination is no interface address. A loopback pair
\* without both ports is decided by rules 2 to 4.
C10_FirstMatchingRule ==
    DirDone =>
        /\ DirRule1 =>
              (probe.out = "Outgoing" <=> probe.source_port > probe.dest_port)
        /\ DirRule1 /\ probe.source_port = probe.dest_port =>
              probe.out = "Incoming"
        /\ ~DirRule1 /\ DirRule2 => probe.out = "Outgoing"
        /\ ~DirRule1 /\ ~DirRule2 /\ DirRule3 => probe.out = "Incoming"
        /\ ~DirRule1 /\ ~DirRule2 /\ ~DirRule3 =>
              (probe.out = "Outgoing" <=> probe.destination_ip \notin DirMine)
        /\ probe.out \in {"Incoming", "Outgoing"}

\* a loopback pair with ports whose source is an interface address and whose
\* source port is not the greater one: rule 1 decides before rule 2
C10_Witness ==
    /\ DirDone /\ DirRule1 /\ DirRule2
    /\ probe.source_port <= probe.dest_port
    /\ probe.out = "Incoming"

\* --------------------------------------- two capture threads on one InfoTraffic
\* Reset does not join the capture thread, which looks at current_capture_id
\* only when it takes its next frame. After Start, NextPacket, Reset, Start the
\* thread of the first capture is inside modify_or_insert_in_map (it has read
\* the time and not yet looked at the map) while the thread of the second
\* capture waits for its first frame, both on the same InfoTraffic.
StaleCalls ==
    {[key |-> key, bytes |-> bytes, now |-> 0, first |-> FALSE,
      dir |-> DefaultDirection, mac |-> mac, app |-> app, icmp |-> icmp] :
        key \in Keys, bytes \in Bytes, mac \in MacInputs, app \in AppInputs,
        icmp \in IcmpInputs}

InitConc ==
    /\ running_page = "Overview"
    /\ pcap_error = FALSE
    /\ current_capture_id = 1
    /\ info_traffic = InfoTrafficNew
    /\ info_lock = FreeLock
    /\ device_addresses \in DeviceLists
    /\ clock = 0
    /\ \E pkt \in StaleCalls :
         threads = [t \in Threads |->
                      IF t = 1 THEN [pc |-> "check", id |-> 0, pkt |-> pkt]
                      ELSE [pc |-> "wait", id |-> 1, pkt |-> NoPacket]]
    /\ lookups = {}
    /\ taken = 1
    /\ spawned = 0
    /\ applied = AppliedZero
    /\ attributed = EmptyMap
    /\ gui = GuiNew
    /\ probe = NoProbe

NextConc == Capture(Keys, Bytes, {0, 1})

SpecConc == InitConc /\ [][NextConc]_vars

Entries == info_traffic.map

\* C1: for every key, after N >= 1 calls applied to the InfoTraffic of the
\* session the entry has transmitted_packets = N, transmitted_bytes = the sum
\* of the N byte counts and final_timestamp = the time read by the call
\* applied last (and a key no call was applied for has no entry).
C1_CountersAfterNCalls ==
    \A k \in Keys :
        /\ k \in DOMAIN Entries <=> applied[k].n >= 1
        /\ k \in DOMAIN Entries =>
              /\ Entries[k].transmitted_packets = applied[k].n
              /\ Entries[k].transmitted_bytes = applied[k].sum
              /\ Entries[k].final_timestamp = applied[k].last

\* three calls of different sizes were applied for one key
C1_Witness ==
    \E k \in DOMAIN Entries :
        /\ applied[k].n = 3
        /\ Entries[k].transmitted_packets = 3
        /\ Entries[k].transmitted_bytes > 3
        /\ Entries[k].transmitted_bytes < 6

\* C2: once a key has an entry, no later call changes the entry's
\* traffic_direction, whatever address list the adapter has by then.
C2_DirectionFixed ==
    [][\A k \in DOMAIN Entries \cap DOMAIN info_traffic'.map :
          info_traffic'.map[k].traffic_direction = Entries[k].traffic_direction]_vars

\* Key1 was updated by a second call while the address list last read from
\* the adapter gives it another direction than the stored one
C2_Witness ==
    /\ Key1 \in DOMAIN Entries
    /\ Entries[Key1].transmitted_packets >= 2
    /\ Entries[Key1].traffic_direction = "Outgoing"
    /\ get_traffic_direction(Key1.address1, Key1.address2, Key1.port1,
                             Key1.port2, device_addresses) = "Incoming"

\* the step in which thread t runs the critical section of lines 202-247
ApplyStep(t) == threads[t].pc = "apply" /\ threads'[t].pc = "book"

\* C6: the update of one call is one critical section, so that under every
\* interleaving of the calls of two threads no update is lost: each call adds
\* exactly 1 to transmitted_packets and its byte count to transmitted_bytes of
\* the entry as it is at that moment, leaves the other entries alone, and the
\* entry of a key is created exactly once.
C6_NoLostUpdate ==
    [][\A t \in Threads : ApplyStep(t) =>
          LET key == threads[t].pkt.key
              new == info_traffic'.map
          IN /\ key \in DOMAIN new
             /\ DOMAIN new = DOMAIN Entries \cup {key}
             /\ \A k \in DOMAIN Entries \ {key} : new[k] = Entries[k]
             /\ IF key \in DOMAIN Entries
                THEN /\ new[key].transmitted_packets =
                            Entries[key].transmitted_packets + 1
                     /\ new[key].transmitted_bytes =
                            Entries[key].transmitted_bytes + threads[t].pkt.bytes
                ELSE /\ new[key].transmitted_packets = 1
                     /\ new[key].transmitted_bytes = threads[t].pkt.bytes
             /\ applied'[key].inserts = 1]_vars

\* both threads found the key absent at line 176, both calls were applied, and
\* the one entry counts both
C6_Witness ==
    /\ \A t \in Threads : threads[t].pc = "book" /\ threads[t].pkt.first
    /\ threads[1].pkt.key = threads[2].pkt.key
    /\ Entries[threads[1].pkt.key].transmitted_packets = 2
    /\ Entries[threads[1].pkt.key].transmitted_bytes =
          threads[1].pkt.bytes + threads[2].pkt.bytes

\* C7: for every entry final_timestamp >= initial_timestamp, also when
\* modify_or_insert_in_map is called concurrently for the same key (the time
\* is read at line 173, before the lock of lines 202-204 is acquired).
C7_FinalNotBeforeInitial ==
    \A k \in DOMAIN Entries :
        Entries[k].final_timestamp >= Entries[k].initial_timestamp

\* ------------------------------------------- one capture and its resolutions
\* The program as constructed, or the program after Start, a first frame (whose
\* address to look up got a reverse_dns_lookup thread), Reset, the exit of the
\* capture thread and a second Start: the lookup thread of the first capture is
\* still running and holds the Arc of the same InfoTraffic mutex. No Reset
\* follows, so no capture thread exits.
StaleLookups == {NewLookup(1, 0, key, dir) : key \in Keys, dir \in {"Incoming", "Outgoing"}}

InitRes ==
    \/ Init
    \/ /\ running_page = "Overview"
       /\ pcap_error = FALSE
       /\ current_capture_id = 1
       /\ info_traffic = InfoTrafficNew
       /\ info_lock = FreeLock
       /\ device_addresses \in DeviceLists
       /\ clock = 0
       /\ threads = [t \in Threads |->
                       IF t = 1 THEN [pc |-> "wait", id |-> 1, pkt |-> NoPacket]
                       ELSE ThreadNone]
       /\ \E r \in StaleLookups :
            /\ r.dir = get_traffic_direction(r.key.address1, r.key.address2,
                           r.key.port1, r.key.port2, device_addresses)
            /\ lookups = {r}
       /\ taken = 1
       /\ spawned = 1
       /\ applied = AppliedZero
       /\ attributed = EmptyMap
       /\ gui = GuiNew
       /\ probe = NoProbe

NextRes ==
    \/ Start
    \/ \E host \in FavoriteInputs, add \in BOOLEAN : AddOrRemoveFavorite(host, add)
    \/ PacketCalls(Keys, Bytes, {0})
    \/ Resolution

SpecRes == InitRes /\ [][NextRes]_vars

Resolved == info_traffic.addresses_resolved
Waiting == info_traffic.addresses_waiting_resolution
Hosts == info_traffic.hosts

AttributedTo(a) == IF a \in DOMAIN attributed THEN attributed[a] ELSE DataInfoZero

\* the sum of the DataInfo values of a map
RECURSIVE SumOf(_)
SumOf(f) ==
    IF DOMAIN f = {} THEN DataInfoZero
    ELSE LET x == CHOOSE y \in DOMAIN f : TRUE
         IN DataInfoAdd(f[x], SumOf(Remove(f, x)))

AddressesOf(h) == {a \in DOMAIN Resolved : Resolved[a].host = h}
LockedByLookup == info_lock.kind = "lookup"
GoogleHost == NewHost(Remote1, RDnsFound(Remote1))

\* C4: outside the merge, the hosts map holds one entry per Host the resolved
\* addresses map to, and the data_info of a Host is the sum of the data of all
\* the addresses resolved to it: a second address merged into an existing Host
\* adds its pending bytes and packets to the counters.
C4_OneHostSumOfAddresses ==
    ~LockedByLookup =>
        /\ DOMAIN Hosts = {Resolved[a].host : a \in DOMAIN Resolved}
        /\ \A h \in DOMAIN Hosts :
              Hosts[h].data_info = SumOf([a \in AddressesOf(h) |-> AttributedTo(a)])

\* two addresses with pending data were merged into the one Host they share
C4_Witness ==
    /\ ~LockedByLookup
    /\ AddressesOf(GoogleHost) = {Remote1, Remote2}
    /\ AttributedTo(Remote1).bytes = 2 /\ AttributedTo(Remote2).bytes = 1
    /\ Cardinality(DOMAIN Hosts) = 1
    /\ Hosts[GoogleHost].data_info = [bytes |-> 3, packets |-> 2]

\* the step in which lookup r ends its merge and drops the lock
MergeEnds(r) == r.pc = "inserted" /\ r \notin lookups'

\* C5: whoever takes the InfoTraffic lock never sees a half-done merge: when no
\* lookup thread holds the lock, no address is both waiting and resolved, every
\* address that was booked is waiting or resolved, a waiting address holds all
\* the data booked to it, every resolved address has its Host in hosts, and the
\* waiting data plus the hosts' data is all the data booked (nothing is lost;
\* a missing pending entry counts zero). A merge ends with its address resolved
\* and not waiting.
C5_MergeAtomic ==
    /\ [](~LockedByLookup =>
            /\ DOMAIN Waiting \cap DOMAIN Resolved = {}
            /\ DOMAIN attributed \subseteq DOMAIN Waiting \cup DOMAIN Resolved
            /\ \A a \in DOMAIN Waiting : Waiting[a] = AttributedTo(a)
            /\ \A a \in DOMAIN Resolved : Resolved[a].host \in DOMAIN Hosts
            /\ DataInfoAdd(SumOf(Waiting),
                           SumOf([h \in DOMAIN Hosts |-> Hosts[h].data_info]))
                 = SumOf(attributed))
    /\ [][\A r \in lookups : MergeEnds(r) =>
            LET a == get_address_to_lookup(r.key, r.dir) IN
            /\ a \notin DOMAIN info_traffic'.addresses_waiting_resolution
            /\ a \in DOMAIN info_traffic'.addresses_resolved
            /\ info_lock' = FreeLock]_vars

\* a merge has moved the pending data of two frames to the Host, and a merge
\* of an address with no pending entry has added nothing
C5_Witness ==
    /\ ~LockedByLookup
    /\ lookups = {}
    /\ \E a \in DOMAIN Resolved :
          /\ AttributedTo(a).packets = 2
          /\ Hosts[Resolved[a].host].data_info = AttributedTo(a)
    /\ \E a \in DOMAIN Resolved : a \notin DOMAIN attributed

\* C8: no thread holds the InfoTraffic lock while it runs a blocking lookup: a
\* reverse_dns_lookup thread that has not finished its rDNS, country and ASN
\* lookups, or has finished them and not yet reached the merge, does not hold
\* it, and a capture thread querying the OS device list does not hold it.
C8_NoLockAcrossLookups ==
    /\ \A r \in lookups :
          r.pc \in {"resolve", "ready"} => info_lock # LookupLock(r.n)
    /\ \A t \in Threads :
          threads[t].pc = "devlist" => info_lock # ThreadLock(t)
    /\ info_lock.kind = "lookup" =>
          \E r \in lookups : r.n = info_lock.n /\ r.pc \in {"removed", "inserted"}
    /\ info_lock.kind # "thread"

\* a capture thread queries the device list and a lookup thread resolves while
\* another lookup thread holds the lock for its merge
C8_Witness ==
    /\ LockedByLookup
    /\ \E t \in Threads : threads[t].pc = "devlist"
    /\ \E r \in lookups : r.pc = "resolve"

\* C9: a merge leaves the is_favorite flag of every Host already in hosts as it
\* is, so a favorite Host stays favorite when one of its addresses (the same
\* or another) is merged into it; and marking a Host that is in hosts sets
\* is_favorite on its one entry, whichever of its addresses the user saw.
C9_FavoriteSurvivesMerge ==
    [][/\ \A r \in lookups : MergeEnds(r) =>
            \A h \in DOMAIN Hosts :
               /\ h \in DOMAIN info_traffic'.hosts
               /\ info_traffic'.hosts[h].is_favorite = Hosts[h].is_favorite
       /\ \A h \in FavoriteInputs :
            (h \in DOMAIN Hosts /\ h \in info_traffic'.favorite_hosts
               /\ h \notin info_traffic.favorite_hosts) =>
            info_traffic'.hosts[h].is_favorite]_vars

\* the Host of two addresses is favorite, and the merge of its second address
\* found it among the favorites
C9_Witness ==
    /\ ~LockedByLookup
    /\ AddressesOf(GoogleHost) = {Remote1, Remote2}
    /\ Hosts[GoogleHost].is_favorite
    /\ GoogleHost \in info_traffic.favorites_last_interval
    /\ Hosts[GoogleHost].data_info.packets = 2
    /\ info_traffic.tot_packets = 2

\* ------------------------------------------------------- session isolation
\* what a capture session aggregates
Aggregate ==
    <<info_traffic.map, info_traffic.addresses_resolved, info_traffic.hosts,
      info_traffic.addresses_waiting_resolution,
      info_traffic.favorites_last_interval>>

AggregateAfter ==
    <<info_traffic'.map, info_traffic'.addresses_resolved, info_traffic'.hosts,
      info_traffic'.addresses_waiting_resolution,
      info_traffic'.favorites_last_interval>>

\* a new capture runs: Reset has raised current_capture_id above the id the
\* work was started under, and Start has replaced the InfoTraffic since
NewSessionRuns(id) == id < current_capture_id /\ running_page # "Init"

\* C3: after Reset and Start, a reverse_dns_lookup or modify_or_insert_in_map
\* call started during the previous session does not change the aggregate
\* state of the new session when it goes on.
C3_StaleWorkIsInert ==
    [][/\ \A r \in lookups :
            NewSessionRuns(r.id) /\ r \notin lookups' => AggregateAfter = Aggregate
       /\ \A t \in Threads :
            (/\ NewSessionRuns(threads[t].id)
             /\ threads[t].pc \in {"check", "devlist", "apply"}
             /\ threads'[t] # threads[t]) => AggregateAfter = Aggregate]_vars

\* ----------------------------------------------- get_traffic_type, evaluated
\* the addresses of the tests, their neighbours, and addresses of both versions
TypeAddresses ==
    {<<223, 255, 255, 255>>, <<224, 0, 0, 0>>, <<227, 255, 255, 0>>,
     <<239, 255, 255, 255>>, <<240, 0, 0, 0>>, Bcast4, <<172, 20, 10, 15>>,
     MyAddr4, Remote1,
     <<255, 0, 0, 0, 0, 0, 0, 0>>, <<65535, 65535, 65535, 0, 0, 0, 0, 0>>,
     <<65152, 4660, 0, 0, 0, 0, 0, 0>>, <<65282, 0, 0, 0, 0, 0, 0, 1>>,
     <<4095, 0, 0, 0, 0, 0, 0, 1>>, <<15, 65280, 0, 0, 0, 0, 0, 1>>,
     <<61695, 0, 0, 0, 0, 0, 0, 1>>, Lo6, Unspec6}

\* an interface whose configured broadcast address lies in the multicast range
McIf4 == [addr |-> <<10, 0, 0, 1>>, netmask |-> <<255, 0, 0, 0>>,
          broadcast_addr |-> <<227, 255, 255, 0>>]

TypeInterfaces == {<<>>, <<MyIf4>>, <<LoIf4>>, <<LoIf4, MyIf4>>, <<McIf4>>}

TypeProbes ==
    [op : {"get_traffic_type"}, destination_ip : TypeAddresses,
     my_interface_addresses : TypeInterfaces,
     traffic_direction : {"Incoming", "Outgoing"}, out : {"pending"}]

InitType == MainInit /\ probe \in TypeProbes

ApplyTrafficType ==
    /\ probe.op = "get_traffic_type"
    /\ probe.out = "pending"
    /\ probe' = [probe EXCEPT !.out = get_traffic_type(
                    probe.destination_ip, probe.my_interface_addresses,
                    probe.traffic_direction)]
    /\ UNCHANGED <<gui, running_page, pcap_error, current_capture_id, info_traffic,
                   info_lock, device_addresses, clock, threads, lookups, taken,
                   spawned, applied, attributed>>

NextType == ApplyTrafficType

SpecType == InitType /\ [][NextType]_vars

TypeDone == probe.op = "get_traffic_type" /\ probe.out # "pending"
TypeOutgoing == probe.traffic_direction = "Outgoing"
TypeMulticast == is_multicast_address(probe.destination_ip)
TypeBroadcast ==
    is_broadcast_address(probe.destination_ip, probe.my_interface_addresses)

\* C11: get_traffic_type returns Unicast for every address and every interface
\* address list when the direction is Incoming; when it is Outgoing it returns
\* Multicast for a multicast address, otherwise Broadcast for a broadcast
\* address, otherwise Unicast: multicast is tested before broadcast.
C11_TypeByDirection ==
    TypeDone =>
        /\ ~TypeOutgoing => probe.out = "Unicast"
        /\ TypeOutgoing /\ TypeMulticast => probe.out = "Multicast"
        /\ TypeOutgoing /\ ~TypeMulticast /\ TypeBroadcast =>
              probe.out = "Broadcast"
        /\ TypeOutgoing /\ ~TypeMulticast /\ ~TypeBroadcast =>
              probe.out = "Unicast"

\* an Outgoing address that is both multicast and a configured broadcast
\* address was classified Multicast
C11_Witness ==
    /\ TypeDone /\ TypeOutgoing /\ TypeMulticast /\ TypeBroadcast
    /\ probe.out = "Multicast"

\* the hexadecimal digits of a hextet as Display writes them: no leading zeros
RECURSIVE HexDigits(_)
HexDigits(h) ==
    IF h < 16 THEN <<h>> ELSE Append(HexDigits(h \div 16), h % 16)

\* the text of an IPv6 address starts with the digits f, f
TextStartsWithFF(address) ==
    LET d == HexDigits(address[1]) IN
    address[1] # 0 /\ Len(d) >= 2 /\ d[1] = 15 /\ d[2] = 15

\* C12: for an Outgoing IPv4 address get_traffic_type returns Multicast exactly
\* when the first octet is in 224..239 (223 and 240 are not Multicast, 224 and
\* 239 are); for an Outgoing IPv6 address exactly when its text starts with "ff".
C12_MulticastBoundary ==
    TypeDone /\ TypeOutgoing =>
        /\ IsV4(probe.destination_ip) =>
              /\ probe.out = "Multicast" <=>
                    (probe.destination_ip[1] >= 224 /\ probe.destination_ip[1] <= 239)
              /\ probe.destination_ip[1] \in {223, 240}
                    /\ ~TypeBroadcast => probe.out = "Unicast"
        /\ IsV6(probe.destination_ip) =>
              (probe.out = "Multicast" <=> TextStartsWithFF(probe.destination_ip))

\* 240.0.0.0 Outgoing was classified Unicast
C12_Witness ==
    /\ TypeDone /\ TypeOutgoing
    /\ probe.destination_ip = <<240, 0, 0, 0>>
    /\ probe.out = "Unicast"

\* C13: for every interface address list, the empty one included,
\* 255.255.255.255 is Broadcast when Outgoing and Unicast when Incoming.
C13_LimitedBroadcast ==
    TypeDone /\ probe.destination_ip = Bcast4 =>
        probe.out = IF TypeOutgoing THEN "Broadcast" ELSE "Unicast"

\* 255.255.255.255 Outgoing with no interface address was classified Broadcast
C13_Witness ==
    /\ TypeDone /\ TypeOutgoing
    /\ probe.destination_ip = Bcast4
    /\ probe.my_interface_addresses = <<>>
    /\ probe.out = "Broadcast"

\* C14: an Outgoing address that is not multicast and not 255.255.255.255 is
\* Broadcast exactly when it equals the configured broadcast_addr of some
\* interface address (an address without broadcast_addr counts as
\* 255.255.255.255, which the candidate is not); with no interface address it
\* is Unicast.
C14_DirectedBroadcast ==
    TypeDone /\ TypeOutgoing /\ ~TypeMulticast /\ probe.destination_ip # Bcast4 =>
        /\ probe.out = "Broadcast" <=>
              \E i \in DOMAIN probe.my_interface_addresses :
                  probe.my_interface_addresses[i].broadcast_addr =
                      probe.destination_ip
        /\ probe.out \in {"Broadcast", "Unicast"}
        /\ probe.my_interface_addresses = <<>> => probe.out = "Unicast"

\* 172.20.10.15 Outgoing is Broadcast on the interface that has it configured
C14_Witness ==
    /\ TypeDone /\ TypeOutgoing
    /\ probe.destination_ip = <<172, 20, 10, 15>>
    /\ probe.my_interface_addresses = <<LoIf4, MyIf4>>
    /\ probe.out = "Broadcast"

\* -------------------------------------------- is_local_connection, evaluated
\* the interface addresses of the tests, and one without a netmask
MyIf4Wide == [addr |-> MyAddr4, netmask |-> <<255, 255, 255, 0>>,
              broadcast_addr |-> <<172, 20, 10, 15>>]
MyIf4NoMask == [addr |-> MyAddr4, netmask |-> NoAddr, broadcast_addr |-> NoAddr]
MyIf6 == [addr |-> <<65168, 2225, 4660, 22136, 53349, 0, 0, 4660>>,
          netmask |-> <<65535, 65535, 65535, 65297, 0, 0, 0, 0>>,
          broadcast_addr |-> NoAddr]

LocalInterfaces ==
    {<<>>, <<MyIf4>>, <<MyIf4Wide>>, <<MyIf4NoMask>>, <<MyIf6>>,
     <<MyIf4, MyIf6>>, <<MyIf4NoMask, MyIf4>>}

LocalCandidates ==
    {<<172, 20, 10, 0>>, <<172, 20, 10, 7>>, <<172, 20, 10, 15>>,
     <<172, 20, 10, 16>>, <<172, 20, 10, 99>>, <<172, 20, 11, 0>>,
     <<169, 254, 17, 199>>, <<169, 255, 17, 199>>, <<224, 0, 1, 2>>, Bcast4,
     <<65152, 0, 0, 0, 2225, 4660, 22136, 53349>>,
     <<65136, 0, 0, 0, 2225, 4660, 22136, 53349>>,
     <<65416, 0, 0, 0, 0, 0, 0, 0>>,
     <<65168, 2225, 4660, 22033, 53349, 0, 0, 4660>>,
     <<65168, 2225, 4660, 22032, 53349, 0, 0, 4660>>,
     <<65424, 2225, 4660, 22032, 53349, 0, 0, 4660>>,
     <<65168, 2225, 4660, 22032, 65535, 61166, 39030, 4660>>}

LocalProbes ==
    [op : {"is_local_connection"}, address_to_lookup : LocalCandidates,
     my_interface_addresses : LocalInterfaces, done : {FALSE}, out : {FALSE}]

InitLocal == MainInit /\ probe \in LocalProbes

ApplyLocalConnection ==
    /\ probe.op = "is_local_connection"
    /\ ~probe.done
    /\ probe' = [probe EXCEPT !.done = TRUE, !.out = is_local_connection(
                    probe.address_to_lookup, probe.my_interface_addresses)]
    /\ UNCHANGED <<gui, running_page, pcap_error, current_capture_id, info_traffic,
                   info_lock, device_addresses, clock, threads, lookups, taken,
                   spawned, applied, attributed>>

NextLocal == ApplyLocalConnection

SpecLocal == InitLocal /\ [][NextLocal]_vars

LocalDone == probe.op = "is_local_connection" /\ probe.done

\* 169.254.0.0/16, or an IPv6 text starting with the digits f, e, 8, 0
LocalLinkLocal ==
    IF IsV4(probe.address_to_lookup)
    THEN probe.address_to_lookup[1] = 169 /\ probe.address_to_lookup[2] = 254
    ELSE HexDigits(probe.address_to_lookup[1]) = <<15, 14, 8, 0>>

\* the interface addresses of the IP version of the candidate
LocalSameVersion ==
    {i \in DOMAIN probe.my_interface_addresses :
        Len(probe.my_interface_addresses[i].addr) = Len(probe.address_to_lookup)}

\* C15: for a candidate that is not link-local, is_local_connection is true
\* exactly when some interface address of the candidate's IP version has a
\* netmask with (netmask AND interface address) = (netmask AND candidate) in
\* every position; addresses of the other version are never compared. With
\* 172.20.10.9/255.255.255.240: 172.20.10.0, .7, .15 are local, .16, .99 not.
C15_SameSubnet ==
    LocalDone /\ ~LocalLinkLocal =>
        /\ probe.out <=>
              \E i \in LocalSameVersion :
                 LET a == probe.my_interface_addresses[i] IN
                 /\ Len(a.netmask) = Len(a.addr)
                 /\ \A j \in 1..Len(a.netmask) :
                       BitAnd(a.netmask[j], a.addr[j]) =
                       BitAnd(a.netmask[j], probe.address_to_lookup[j])
        /\ LocalSameVersion = {} => ~probe.out
        /\ probe.my_interface_addresses = <<MyIf4>> =>
              /\ probe.address_to_lookup \in
                    {<<172, 20, 10, 0>>, <<172, 20, 10, 7>>, <<172, 20, 10, 15>>}
                    => probe.out
              /\ probe.address_to_lookup \in
                    {<<172, 20, 10, 16>>, <<172, 20, 10, 99>>} => ~probe.out

\* 172.20.10.15 was found local to 172.20.10.9/255.255.255.240 although the
\* list also holds an address of the other IP version
C15_Witness ==
    /\ LocalDone
    /\ probe.address_to_lookup = <<172, 20, 10, 15>>
    /\ probe.my_interface_addresses = <<MyIf4, MyIf6>>
    /\ probe.out = TRUE

\* the prefixes next to the link-local ones
LocalNeighbours ==
    {<<169, 255, 17, 199>>, <<65136, 0, 0, 0, 2225, 4660, 22136, 53349>>,
     <<65416, 0, 0, 0, 0, 0, 0, 0>>}

\* C16: is_local_connection is true for every link-local candidate (IPv4 in
\* 169.254.0.0/16, IPv6 text starting with "fe80") whatever the netmask, when
\* the list has an address of the candidate's IP version; 169.255.x.x, fe70::
\* and ff88:: are not link-local (they are local only by their subnet).
C16_LinkLocal ==
    LocalDone =>
        /\ LocalLinkLocal /\ LocalSameVersion # {} => probe.out
        /\ probe.address_to_lookup \in LocalNeighbours =>
              /\ ~LocalLinkLocal
              /\ probe.my_interface_addresses \in
                    {<<>>, <<MyIf4>>, <<MyIf6>>, <<MyIf4, MyIf6>>, <<MyIf4NoMask>>}
                    => ~probe.out

\* 169.254.17.199 was found local on an interface address without a netmask
C16_Witness ==
    /\ LocalDone
    /\ probe.address_to_lookup = <<169, 254, 17, 199>>
    /\ probe.my_interface_addresses = <<MyIf4NoMask>>
    /\ probe.out = TRUE

\* ------------------------------------------------ analyze_headers, evaluated
\* Option::None of a MAC address text
NoMac == <<>>

\* format!("{n:02x}") of every byte, joined by ':': a text is modelled by its
\* pairs of hexadecimal digits
mac_from_dec_to_hex(mac_dec) ==
    [i \in DOMAIN mac_dec |-> <<mac_dec[i] \div 16, mac_dec[i] % 16>>]

\* headers.link, headers.ip and headers.transport as etherparse gives them;
\* a header etherparse has no variant for is None
LinkHeaders ==
    {[kind |-> "None", source |-> <<>>, destination |-> <<>>],
     [kind |-> "Ethernet2", source |-> <<255, 255, 10, 177, 9, 15>>,
      destination |-> <<0, 0, 0, 0, 0, 0>>]}

IpHeaders ==
    {[kind |-> "None", source |-> NoAddr, destination |-> NoAddr, payload |-> 0],
     [kind |-> "Version4", source |-> MyAddr4, destination |-> Remote1,
      payload |-> 40],
     [kind |-> "Version6", source |-> Lo6, destination |-> Unspec6,
      payload |-> 60]}

TransportHeaders ==
    {[kind |-> "None", source_port |-> 0, destination_port |-> 0, icmp_type |-> 0],
     [kind |-> "Udp", source_port |-> 53, destination_port |-> 50000, icmp_type |-> 0],
     [kind |-> "Tcp", source_port |-> 50000, destination_port |-> 443, icmp_type |-> 0],
     [kind |-> "Icmpv4", source_port |-> 0, destination_port |-> 0, icmp_type |-> 8],
     [kind |-> "Icmpv6", source_port |-> 0, destination_port |-> 0, icmp_type |-> 128]}

\* IcmpType: the default value, and the value from_etherparse gives
IcmpTypeDefault == [version |-> 0, type |-> 0]
IcmpTypeV4 == [version |-> 4, type |-> 0]
IcmpTypeV6 == [version |-> 6, type |-> 0]

\* PacketFiltersFields::default()
PacketFiltersFieldsDefault ==
    [ip_version |-> "IPv4", source |-> Unspec4, dest |-> Unspec4,
     sport |-> NoPort, dport |-> NoPort, protocol |-> "TCP"]

\* the values the &mut arguments hold when analyze_headers is called
HeaderOutputs ==
    [mac_addresses : {<<NoMac, NoMac>>,
                      <<mac_from_dec_to_hex(<<1, 2, 3, 4, 5, 6>>),
                        mac_from_dec_to_hex(<<6, 5, 4, 3, 2, 1>>)>>},
     exchanged_bytes : {0},
     icmp_type : {IcmpTypeDefault, [version |-> 4, type |-> 3]},
     packet_filters_fields : {PacketFiltersFieldsDefault}]

\* lines 71-84
analyze_link_header(link_header, out) ==
    IF link_header.kind = "Ethernet2"
    THEN [out EXCEPT !.mac_addresses =
              <<mac_from_dec_to_hex(link_header.source),
                mac_from_dec_to_hex(link_header.destination)>>]
    ELSE [out EXCEPT !.mac_addresses = <<NoMac, NoMac>>]

\* lines 88-113: the result and the &mut arguments after the call
analyze_network_header(network_header, out) ==
    IF network_header.kind = "Version4"
    THEN [ok |-> TRUE,
          out |-> [out EXCEPT !.packet_filters_fields.ip_version = "IPv4",
                              !.packet_filters_fields.source = network_header.source,
                              !.packet_filters_fields.dest = network_header.destination,
                              !.exchanged_bytes = network_header.payload]]
    ELSE IF network_header.kind = "Version6"
    THEN [ok |-> TRUE,
          out |-> [out EXCEPT !.packet_filters_fields.ip_version = "IPv6",
                              !.packet_filters_fields.source = network_header.source,
                              !.packet_filters_fields.dest = network_header.destination,
                              !.exchanged_bytes = network_header.payload]]
    ELSE [ok |-> FALSE, out |-> out]

\* ICMPv6 taken for an unsupported transport
analyze_transport_header_no_icmpv6(transport_header, out) ==
    IF transport_header.kind \in {"Udp", "Tcp"}
    THEN [ok |-> TRUE,
          out |-> [out EXCEPT !.packet_filters_fields.sport = transport_header.source_port,
                              !.packet_filters_fields.dport = transport_header.destination_port,
                              !.packet_filters_fields.protocol =
                                  IF transport_header.kind = "Udp" THEN "UDP" ELSE "TCP"]]
    ELSE IF transport_header.kind = "Icmpv4"
    THEN [ok |-> TRUE,
          out |-> [out EXCEPT !.packet_filters_fields.sport = NoPort,
                              !.packet_filters_fields.dport = NoPort,
                              !.packet_filters_fields.protocol = "ICMP",
                              !.icmp_type = [IcmpTypeV4 EXCEPT
                                                !.type = transport_header.icmp_type]]]
    ELSE [ok |-> FALSE, out |-> out]

\* lines 117-153
analyze_transport_header(transport_header, out) ==
    IF transport_header.kind = "Udp"
    THEN [ok |-> TRUE,
          out |-> [out EXCEPT !.packet_filters_fields.sport = transport_header.source_port,
                              !.packet_filters_fields.dport = transport_header.destination_port,
                              !.packet_filters_fields.protocol = "UDP"]]
    ELSE IF transport_header.kind = "Tcp"
    THEN [ok |-> TRUE,
          out |-> [out EXCEPT !.packet_filters_fields.sport = transport_header.source_port,
                              !.packet_filters_fields.dport = transport_header.destination_port,
                              !.packet_filters_fields.protocol = "TCP"]]
    ELSE IF transport_header.kind = "Icmpv4"
    THEN [ok |-> TRUE,
          out |-> [out EXCEPT !.packet_filters_fields.sport = NoPort,
                              !.packet_filters_fields.dport = NoPort,
                              !.packet_filters_fields.protocol = "ICMP",
                              !.icmp_type = [IcmpTypeV4 EXCEPT
                                                !.type = transport_header.icmp_type]]]
    ELSE IF transport_header.kind = "Icmpv6"
    THEN [ok |-> TRUE,
          out |-> [out EXCEPT !.packet_filters_fields.sport = NoPort,
                              !.packet_filters_fields.dport = NoPort,
                              !.packet_filters_fields.protocol = "ICMP",
                              !.icmp_type = [IcmpTypeV6 EXCEPT
                                                !.type = transport_header.icmp_type]]]
    ELSE [ok |-> FALSE, out |-> out]

\* Option<AddressPortPair>
NoPair == [some |-> FALSE, key |-> Key1]
SomePair(f) ==
    [some |-> TRUE,
     key |-> [address1 |-> f.source, port1 |-> f.sport,
              address2 |-> f.dest, port2 |-> f.dport, protocol |-> f.protocol]]

\* lines 30-66: the value returned and the &mut arguments after the call
analyze_headers(headers, out) ==
    LET linked == analyze_link_header(headers.link, out)
        net == analyze_network_header(headers.ip, linked)
        tra == analyze_transport_header(headers.transport, net.out)
    IN  IF ~net.ok THEN [ret |-> NoPair, out |-> net.out]
        ELSE IF ~tra.ok THEN [ret |-> NoPair, out |-> tra.out]
        ELSE [ret |-> SomePair(tra.out.packet_filters_fields), out |-> tra.out]

HeaderProbes ==
    [op : {"analyze_headers"},
     headers : [link : LinkHeaders, ip : IpHeaders, transport : TransportHeaders],
     before : HeaderOutputs, done : {FALSE}, ret : {NoPair}, out : HeaderOutputs]

InitHeaders == MainInit /\ probe \in {q \in HeaderProbes : q.out = q.before}

ApplyAnalyzeHeaders ==
    /\ probe.op = "analyze_headers"
    /\ ~probe.done
    /\ LET res == analyze_headers(probe.headers, probe.before)
       IN probe' = [probe EXCEPT !.done = TRUE, !.ret = res.ret, !.out = res.out]
    /\ UNCHANGED <<gui, running_page, pcap_error, current_capture_id, info_traffic,
                   info_lock, device_addresses, clock, threads, lookups, taken,
                   spawned, applied, attributed>>

NextHeaders == ApplyAnalyzeHeaders

SpecHeaders == InitHeaders /\ [][NextHeaders]_vars

HeadersDone == probe.op = "analyze_headers" /\ probe.done
HeadersIcmp == probe.headers.transport.kind \in {"Icmpv4", "Icmpv6"}

WellKnownPorts ==
    {[ports |-> 20..21, app |-> "FTP"], [ports |-> {22}, app |-> "SSH"],
     [ports |-> {23}, app |-> "Telnet"], [ports |-> {25}, app |-> "SMTP"],
     [ports |-> {49}, app |-> "TACACS"], [ports |-> {53}, app |-> "DNS"],
     [ports |-> 67..68, app |-> "DHCP"], [ports |-> {69}, app |-> "TFTP"],
     [ports |-> {80, 8080}, app |-> "HTTP"], [ports |-> 109..110, app |-> "POP"],
     [ports |-> {123}, app |-> "NTP"], [ports |-> 137..139, app |-> "NetBIOS"],
     [ports |-> {143, 220}, app |-> "IMAP"],
     [ports |-> {161, 162, 199}, app |-> "SNMP"],
     [ports |-> {179}, app |-> "BGP"], [ports |-> {389}, app |-> "LDAP"],
     [ports |-> {443}, app |-> "HTTPS"], [ports |-> {636}, app |-> "LDAPS"],
     [ports |-> 989..990, app |-> "FTPS"], [ports |-> {993}, app |-> "IMAPS"],
     [ports |-> {995}, app |-> "POP3S"], [ports |-> {1900}, app |-> "SSDP"],
     [ports |-> {5222}, app |-> "XMPP"], [ports |-> {5353}, app |-> "mDNS"]}

\* a table without the alternative HTTP port
from_port_to_application_protocol_one_http(port) ==
    IF port = NoPort THEN "NotApplicable"
    ELSE LET rows == {r \in WellKnownPorts : port \in r.ports \ {8080}} IN
         IF rows = {} THEN "Unknown" ELSE (CHOOSE r \in rows : TRUE).app

\* app_protocol.rs lines 84-117
from_port_to_application_protocol(port) ==
    IF port = NoPort THEN "NotApplicable"
    ELSE IF port \in 20..21 THEN "FTP"
    ELSE IF port = 22 THEN "SSH"
    ELSE IF port = 23 THEN "Telnet"
    ELSE IF port = 25 THEN "SMTP"
    ELSE IF port = 49 THEN "TACACS"
    ELSE IF port = 53 THEN "DNS"
    ELSE IF port \in 67..68 THEN "DHCP"
    ELSE IF port = 69 THEN "TFTP"
    ELSE IF port \in {80, 8080} THEN "HTTP"
    ELSE IF port \in 109..110 THEN "POP"
    ELSE IF port = 123 THEN "NTP"
    ELSE IF port \in 137..139 THEN "NetBIOS"
    ELSE IF port \in {143, 220} THEN "IMAP"
    ELSE IF port \in 161..162 \/ port = 199 THEN "SNMP"
    ELSE IF port = 179 THEN "BGP"
    ELSE IF port = 389 THEN "LDAP"
    ELSE IF port = 443 THEN "HTTPS"
    ELSE IF port = 636 THEN "LDAPS"
    ELSE IF port \in 989..990 THEN "FTPS"
    ELSE IF port = 993 THEN "IMAPS"
    ELSE IF port = 995 THEN "POP3S"
    ELSE IF port = 1900 THEN "SSDP"
    ELSE IF port = 5222 THEN "XMPP"
    ELSE IF port = 5353 THEN "mDNS"
    ELSE "Unknown"

\* the destination port looked up first
get_app_protocol_dst_first(src_port, dst_port) ==
    LET application_protocol == from_port_to_application_protocol(dst_port) IN
    IF application_protocol = "Unknown"
    THEN from_port_to_application_protocol(src_port)
    ELSE application_protocol

\* manage_packets.rs lines 155-161
get_app_protocol(src_port, dst_port) ==
    LET application_protocol == from_port_to_application_protocol(src_port) IN
    IF application_protocol = "Unknown"
    THEN from_port_to_application_protocol(dst_port)
    ELSE application_protocol

\* table ports, their neighbours, ephemeral ports, and no port
AppPorts ==
    {NoPort, 0, 19, 20, 21, 22, 24, 25, 53, 67, 68, 80, 443, 444, 500, 993,
     1999, 5353, 8080, 50000, 65535}

AppProbes ==
    [op : {"get_app_protocol"}, src_port : AppPorts, dst_port : AppPorts,
     out : {"pending"}]

InitApp == MainInit /\ probe \in AppProbes

ApplyAppProtocol ==
    /\ probe.op = "get_app_protocol"
    /\ probe.out = "pending"
    /\ probe' = [probe EXCEPT !.out = get_app_protocol(probe.src_port, probe.dst_port)]
    /\ UNCHANGED <<gui, running_page, pcap_error, current_capture_id, info_traffic,
                   info_lock, device_addresses, clock, threads, lookups, taken,
                   spawned, applied, attributed>>

NextApp == ApplyAppProtocol

SpecApp == InitApp /\ [][NextApp]_vars

AppDone == probe.op = "get_app_protocol" /\ probe.out # "pending"
AppOfSource == from_port_to_application_protocol(probe.src_port)
AppOfDest == from_port_to_application_protocol(probe.dst_port)

\* C18: get_app_protocol returns the table result of the source port unless it
\* is Unknown, and then the table result of the destination port: with two
\* known ports the source port wins, with two unknown ports the result is
\* Unknown, and with both ports absent (ICMP) it is NotApplicable.
C18_SourcePortFirst ==
    AppDone =>
        /\ AppOfSource # "Unknown" => probe.out = AppOfSource
        /\ AppOfSource = "Unknown" => probe.out = AppOfDest
        /\ AppOfSource = "Unknown" /\ AppOfDest = "Unknown" => probe.out = "Unknown"
        /\ probe.src_port = NoPort /\ probe.dst_port = NoPort =>
              probe.out = "NotApplicable"
        /\ probe.src_port = 53 /\ probe.dst_port = 443 => probe.out = "DNS"
        /\ probe.src_port = 50000 /\ probe.dst_port = 443 => probe.out = "HTTPS"

\* two known ports of different protocols: the source port decided
C18_Witness ==
    /\ AppDone
    /\ probe.src_port = 443 /\ probe.dst_port = 53
    /\ probe.out = "HTTPS"

\* -------------------------------------- the frames of one connection, in turn
\* The program after its first Start: one capture thread waits for its first
\* frame. The frames of the one connection arrive with differing MAC
\* addresses and (as modify_or_insert_in_map allows) application protocols.
FrameMacs == {<<"aa:aa", "bb:bb">>, <<"cc:cc", "bb:bb">>}
FrameApps == {"HTTPS", "Unknown"}

InitFrame ==
    /\ running_page = "Overview"
    /\ pcap_error = FALSE
    /\ current_capture_id = 0
    /\ info_traffic = InfoTrafficNew
    /\ info_lock = FreeLock
    /\ device_addresses \in DeviceLists
    /\ clock = 0
    /\ threads = [t \in Threads |->
                    IF t = 1 THEN [pc |-> "wait", id |-> 0, pkt |-> NoPacket]
                    ELSE ThreadNone]
    /\ lookups = {}
    /\ taken = 0
    /\ spawned = 0
    /\ applied = AppliedZero
    /\ attributed = EmptyMap
    /\ gui = GuiNew
    /\ probe = NoProbe

NextFrame ==
    \/ \E t \in Threads : NextPacketWith(t, {Key1}, Bytes, {0, 1}, FrameMacs, FrameApps)
    \/ \E t \in Threads : MoCheck(t)
    \/ \E t \in Threads : MoDeviceList(t)
    \/ \E t \in Threads : MoApply(t)
    \/ \E t \in Threads : PpBook(t)
    \/ Resolution

SpecFrame == InitFrame /\ [][NextFrame]_vars

\* C19: mac_address1, mac_address2, app_protocol and initial_timestamp of an
\* entry are those of the call that inserted it, and no later call for the key
\* changes them, whatever MAC addresses and application protocol it passes.
C19_IdentitySetOnInsert ==
    [][\A t \in Threads : ApplyStep(t) =>
          LET key == threads[t].pkt.key
              pkt == threads[t].pkt
              new == info_traffic'.map[key]
          IN IF key \in DOMAIN Entries
             THEN /\ new.mac_address1 = Entries[key].mac_address1
                  /\ new.mac_address2 = Entries[key].mac_address2
                  /\ new.app_protocol = Entries[key].app_protocol
                  /\ new.initial_timestamp = Entries[key].initial_timestamp
             ELSE /\ new.mac_address1 = pkt.mac[1]
                  /\ new.mac_address2 = pkt.mac[2]
                  /\ new.app_protocol = pkt.app
                  /\ new.initial_timestamp = pkt.now]_vars

\* a later call with another source MAC address, another application protocol
\* and a later time was applied to an entry
C19_Witness ==
    \E t \in Threads :
        /\ threads[t].pc = "book"
        /\ threads[t].pkt.key \in DOMAIN Entries
        /\ LET e == Entries[threads[t].pkt.key] IN
           /\ e.transmitted_packets >= 2
           /\ e.mac_address1 # threads[t].pkt.mac[1]
           /\ e.app_protocol # threads[t].pkt.app
           /\ e.initial_timestamp < threads[t].pkt.now
           /\ e.final_timestamp = threads[t].pkt.now

\* ------------------------------------------- favorites of the last interval
FavoriteHosts == info_traffic.favorite_hosts
LastInterval == info_traffic.favorites_last_interval

\* C20: when modify_or_insert_in_map has updated an entry and the address to
\* look up of the connection (by the direction stored in the entry) is
\* resolved to a Host in favorite_hosts, the Host is in
\* favorites_last_interval when the call returns; so is the Host of a
\* reverse_dns_lookup merge when it is in favorite_hosts. Otherwise the call
\* leaves favorites_last_interval unchanged.
C20_FavoritesRecorded ==
    [][/\ \A t \in Threads : ApplyStep(t) =>
            LET key == threads[t].pkt.key
                a == get_address_to_lookup(
                        key, info_traffic'.map[key].traffic_direction)
            IN IF a \in DOMAIN Resolved /\ Resolved[a].host \in FavoriteHosts
               THEN info_traffic'.favorites_last_interval =
                        LastInterval \cup {Resolved[a].host}
               ELSE info_traffic'.favorites_last_interval = LastInterval
       /\ \A r \in lookups : MergeEnds(r) =>
            IF r.host \in FavoriteHosts
            THEN info_traffic'.favorites_last_interval = LastInterval \cup {r.host}
            ELSE info_traffic'.favorites_last_interval = LastInterval]_vars

\* a call for a connection whose Host is resolved and favorite has returned,
\* no lookup is in flight, and the Host is in favorites_last_interval
C20_Witness ==
    /\ lookups = {}
    /\ \E t \in Threads :
        /\ threads[t].pc = "book"
        /\ ~threads[t].pkt.first
        /\ LET a == get_address_to_lookup(threads[t].pkt.key, threads[t].pkt.dir) IN
           /\ a \in DOMAIN Resolved
           /\ Resolved[a].host \in FavoriteHosts
           /\ Resolved[a].host \in LastInterval

\* ---------------------------------------------------------- the refresh tick
\* a session restarted while a lookup of the session before is in flight,
\* its first frames, the reverse lookups, the favorites and the ticks
InitTick == InitRes

NextTick ==
    \/ Start
    \/ \E host \in FavoriteInputs, add \in BOOLEAN : AddOrRemoveFavorite(host, add)
    \/ TickRun
    \/ PacketCalls({Key1}, {1}, {0})
    \/ Resolution

SpecTick == InitTick /\ [][NextTick]_vars

\* C21: favorites_last_interval is empty after every TickRun handled by
\* refresh_data, the ticks at which no packet has been counted included.
C21_ClearedAtEachTick ==
    [][TickRun => info_traffic'.favorites_last_interval = {}]_vars

\* ------------------------------------------- modals, settings and the pages
\* the variables a message of the overlays leaves alone
SessionUnchanged ==
    UNCHANGED <<pcap_error, current_capture_id, info_traffic, info_lock,
                device_addresses, clock, threads, lookups, taken, spawned,
                applied, attributed, probe>>

\* a modal shown over an open settings page
show_modal_over_settings(g, modal) ==
    IF g.modal = "None" THEN [g EXCEPT !.modal = modal] ELSE g

\* Message::ShowModal(modal)
show_modal(g, modal) ==
    IF g.settings_page = "None" /\ g.modal = "None"
    THEN [g EXCEPT !.modal = modal] ELSE g

ShowModal(modal) ==
    /\ gui' = show_modal(gui, modal)
    /\ UNCHANGED running_page
    /\ SessionUnchanged

\* Message::HideModal
HideModal ==
    /\ gui' = [gui EXCEPT !.modal = "None"]
    /\ UNCHANGED running_page
    /\ SessionUnchanged

\* Message::OpenSettings(settings_page)
open_settings(g, settings_page) ==
    IF g.modal = "None" THEN [g EXCEPT !.settings_page = settings_page] ELSE g

OpenSettings(settings_page) ==
    /\ gui' = open_settings(gui, settings_page)
    /\ UNCHANGED running_page
    /\ SessionUnchanged

\* Message::OpenLastSettings
open_last_settings(g) ==
    IF g.modal = "None" /\ g.settings_page = "None"
    THEN [g EXCEPT !.settings_page = g.last_opened_setting] ELSE g

OpenLastSettings ==
    /\ gui' = open_last_settings(gui)
    /\ UNCHANGED running_page
    /\ SessionUnchanged

\* a close that does not store the page
close_settings_not_stored(g) == [g EXCEPT !.settings_page = "None"]

\* Message::CloseSettings: close_settings
close_settings(g) ==
    IF g.settings_page # "None"
    THEN [g EXCEPT !.last_opened_setting = g.settings_page,
                   !.settings_page = "None"]
    ELSE g

CloseSettings ==
    /\ gui' = close_settings(gui)
    /\ UNCHANGED running_page
    /\ SessionUnchanged

\* Message::ChangeRunningPage(running_page), sent by the tabs of a running page
ChangeRunningPage(page) ==
    /\ running_page # "Init"
    /\ running_page' = page
    /\ gui' = IF page = "Notifications"
              THEN [gui EXCEPT !.unread_notifications = 0] ELSE gui
    /\ SessionUnchanged

\* RunningPage::next and previous; SettingsPage::next and previous
RunningPageNext(page) ==
    CASE page = "Overview" -> "Inspect"
      [] page = "Inspect" -> "Notifications"
      [] page = "Notifications" -> "Overview"
      [] OTHER -> "Init"

RunningPagePrevious(page) ==
    CASE page = "Overview" -> "Notifications"
      [] page = "Inspect" -> "Overview"
      [] page = "Notifications" -> "Inspect"
      [] OTHER -> "Init"

SettingsPageNext(page) ==
    CASE page = "Notifications" -> "Appearance"
      [] page = "Appearance" -> "General"
      [] OTHER -> "Notifications"

SettingsPagePrevious(page) ==
    CASE page = "Notifications" -> "General"
      [] page = "Appearance" -> "Notifications"
      [] OTHER -> "Appearance"

\* a switch of the running page that does not look at the packet counters
switch_page_without_packets(g, page, next) ==
    IF g.settings_page # "None" /\ g.modal = "None"
    THEN [gui |-> [g EXCEPT !.settings_page =
                      IF next THEN SettingsPageNext(@) ELSE SettingsPagePrevious(@)],
          running_page |-> page]
    ELSE IF page \in RunningPages /\ g.settings_page = "None" /\ g.modal = "None"
    THEN LET new_page == IF next THEN RunningPageNext(page)
                         ELSE RunningPagePrevious(page)
         IN [gui |-> IF new_page = "Notifications"
                     THEN [g EXCEPT !.unread_notifications = 0] ELSE g,
             running_page |-> new_page]
    ELSE [gui |-> g, running_page |-> page]

\* switch_page: the settings page when one is open and no modal is shown,
\* else the running page when packets have been counted
switch_page(g, page, next) ==
    IF g.settings_page # "None" /\ g.modal = "None"
    THEN [gui |-> [g EXCEPT !.settings_page =
                      IF next THEN SettingsPageNext(@) ELSE SettingsPagePrevious(@)],
          running_page |-> page]
    ELSE IF page \in RunningPages /\ g.settings_page = "None" /\ g.modal = "None"
    THEN IF g.runtime_data.tot_packets > 0
         THEN LET new_page == IF next THEN RunningPageNext(page)
                              ELSE RunningPagePrevious(page)
              IN [gui |-> IF new_page = "Notifications"
                          THEN [g EXCEPT !.unread_notifications = 0] ELSE g,
                  running_page |-> new_page]
         ELSE [gui |-> g, running_page |-> page]
    ELSE [gui |-> g, running_page |-> page]

\* TimingEvents::was_just_focus
was_just_focus(g) == ~g.focus_elapsed

\* Message::SwitchPage(next)
SwitchPage(next) ==
    /\ LET switched == IF ~was_just_focus(gui)
                       THEN switch_page(gui, running_page, next)
                       ELSE [gui |-> gui, running_page |-> running_page]
       IN /\ gui' = switched.gui
          /\ running_page' = switched.running_page
    /\ SessionUnchanged

\* Message::WindowFocused: TimingEvents::focus_now
WindowFocused ==
    /\ gui' = [gui EXCEPT !.focus_elapsed = FALSE]
    /\ UNCHANGED running_page
    /\ SessionUnchanged

\* the focus timeout runs out
FocusTimeout ==
    /\ ~gui.focus_elapsed
    /\ gui' = [gui EXCEPT !.focus_elapsed = TRUE]
    /\ UNCHANGED running_page
    /\ SessionUnchanged

\* Message::Waiting
MessageWaiting ==
    /\ gui' = update_waiting_dots(gui)
    /\ UNCHANGED running_page
    /\ SessionUnchanged

\* the first frame of a capture, for Key1
FirstFrame ==
    [key |-> Key1, bytes |-> 1, now |-> 0, first |-> TRUE,
     dir |-> get_traffic_direction(Key1.address1, Key1.address2,
                                   Key1.port1, Key1.port2, <<MyIf4>>),
     mac |-> <<"aa:aa", "bb:bb">>, app |-> "HTTPS", icmp |-> "default"]

FirstFrameAddress == get_address_to_lookup(Key1, FirstFrame.dir)

\* the InfoTraffic after the first frame has been applied and booked
AfterFirstFrame ==
    BookPacket([InfoTrafficNew EXCEPT
                   !.map = UpsertEntry(EmptyMap, Key1, FirstFrame)],
               FirstFrameAddress, FirstFrame.bytes)

\* a capture whose first frame has been booked, its reverse_dns_lookup still
\* in flight
FirstFrameBooked ==
    /\ running_page = "Overview"
    /\ pcap_error = FALSE
    /\ current_capture_id = 0
    /\ info_traffic = AfterFirstFrame
    /\ info_lock = FreeLock
    /\ device_addresses = <<MyIf4>>
    /\ clock = 0
    /\ threads = [t \in Threads |->
                    IF t = 1 THEN [pc |-> "wait", id |-> 0, pkt |-> NoPacket]
                    ELSE ThreadNone]
    /\ lookups = {NewLookup(1, 0, Key1, FirstFrame.dir)}
    /\ taken = 1
    /\ spawned = 1
    /\ applied = [AppliedZero EXCEPT ![Key1] =
                     [n |-> 1, sum |-> 1, last |-> 0, inserts |-> 1]]
    /\ attributed = Put(EmptyMap, FirstFrameAddress, new_with_first_packet(1))
    /\ gui = GuiNew

InitGui ==
    \/ Init
    \/ FirstFrameBooked /\ probe = NoProbe

\* the sessions, the refresh ticks and the overlays of the window
NextGui ==
    \/ Start
    \/ Reset
    \/ TickRun
    \/ MessageWaiting
    \/ \E t \in Threads : ThreadExit(t)
    \/ \E modal \in Modals : ShowModal(modal)
    \/ HideModal
    \/ \E settings_page \in SettingsPages : OpenSettings(settings_page)
    \/ OpenLastSettings
    \/ CloseSettings
    \/ \E page \in RunningPages : ChangeRunningPage(page)
    \/ \E next \in BOOLEAN : SwitchPage(next)
    \/ WindowFocused
    \/ FocusTimeout

SpecGui == InitGui /\ [][NextGui]_vars

\* ------------------------------------------------------ starts and resets
\* a step is a Start when it leaves the initial page, a Reset when it
\* returns to it
StartStep == running_page = "Init" /\ running_page' # "Init"
ResetStep == running_page # "Init" /\ running_page' = "Init"

LiveThreads == {t \in Threads : threads[t].pc # "none"}

\* C22: immediately after Start the shared InfoTraffic equals a fresh one
\* (empty map, addresses_resolved, hosts, addresses_waiting_resolution,
\* favorite_hosts and favorites_last_interval, counters at zero) and
\* runtime_data is a new RunTimeData, whatever the session before left and
\* whether or not the interface could be opened.
C22_FreshAfterStart ==
    [][StartStep =>
          /\ info_traffic'.map = EmptyMap
          /\ info_traffic'.addresses_resolved = EmptyMap
          /\ info_traffic'.hosts = EmptyMap
          /\ info_traffic'.addresses_waiting_resolution = EmptyMap
          /\ info_traffic'.favorite_hosts = {}
          /\ info_traffic'.favorites_last_interval = {}
          /\ info_traffic'.tot_packets = 0
          /\ gui'.runtime_data.tot_packets = 0
          /\ gui'.runtime_data.logged_notifications = 0]_vars

\* a Start that could not open the interface has replaced the data of a
\* session whose first frame had been booked
C22_Witness ==
    /\ running_page = "Overview"
    /\ pcap_error
    /\ current_capture_id >= 1
    /\ lookups # {}
    /\ info_traffic = InfoTrafficNew
    /\ gui.runtime_data = RunTimeDataNew

\* C23: when the opening fails Start stores the error in pcap_error and
\* spawns no capture thread, and nothing spawns one later; pcap_error stays
\* set until a Reset or a later Start. When the opening succeeds pcap_error
\* is None and exactly one capture thread is spawned, with the current id.
C23_OpenError ==
    [][/\ StartStep =>
            IF pcap_error'
            THEN threads' = threads
            ELSE \E t \in Threads :
                   /\ threads[t].pc = "none"
                   /\ threads' = [threads EXCEPT ![t] =
                         [pc |-> "wait", id |-> current_capture_id,
                          pkt |-> NoPacket]]
       /\ \A t \in Threads :
            threads[t].pc = "none" /\ threads'[t].pc # "none" => StartStep
       /\ pcap_error' # pcap_error => StartStep \/ ResetStep
       /\ ResetStep => ~pcap_error']_vars

\* a second session whose interface could not be opened: the error is set
\* and no thread has the current capture id
C23_Witness ==
    /\ running_page = "Overview"
    /\ pcap_error
    /\ current_capture_id >= 1
    /\ \A t \in LiveThreads : threads[t].id # current_capture_id

RemoteEnd(key, dir) == IF dir = "Outgoing" THEN key.address2 ELSE key.address1

InsertsResolved(r) ==
    r.pc = "removed" /\ [r EXCEPT !.pc = "inserted"] \in lookups'

\* C25: get_address_to_lookup returns address2 of the key when the direction
\* is Outgoing and address1 when it is Incoming; reverse_dns_lookup resolves
\* and stores this address, and the favorite check of modify_or_insert_in_map
\* looks up this same address for the key and the direction of the entry.
C25_AddressToLookup ==
    [][/\ \A key \in Keys :
            /\ get_address_to_lookup(key, "Outgoing") = key.address2
            /\ get_address_to_lookup(key, "Incoming") = key.address1
       /\ \A r \in lookups : InsertsResolved(r) =>
            /\ DOMAIN info_traffic'.addresses_resolved =
                   DOMAIN Resolved \cup {RemoteEnd(r.key, r.dir)}
            /\ r.host = NewHost(RemoteEnd(r.key, r.dir), r.r_dns)
       /\ \A t \in Threads : ApplyStep(t) =>
            LET key == threads[t].pkt.key
                a == RemoteEnd(key, info_traffic'.map[key].traffic_direction)
            IN info_traffic'.favorites_last_interval =
                  IF a \in DOMAIN Resolved /\ Resolved[a].host \in FavoriteHosts
                  THEN LastInterval \cup {Resolved[a].host}
                  ELSE LastInterval]_vars

\* the far ends of an outgoing and of an incoming connection are resolved,
\* and a call for the outgoing one has recorded its favorite Host
C25_Witness ==
    /\ Key1 \in DOMAIN Entries /\ Entries[Key1].traffic_direction = "Outgoing"
    /\ Key2 \in DOMAIN Entries /\ Entries[Key2].traffic_direction = "Incoming"
    /\ Key1.address2 \in DOMAIN Resolved
    /\ Key2.address1 \in DOMAIN Resolved
    /\ Key1.address1 \notin DOMAIN Resolved
    /\ Resolved[Key1.address2].host \in LastInterval

\* -------------------------------------------------- overlays of the window
\* C26: a modal and a settings page are never open at the same time:
\* ShowModal is ignored while a settings page or a modal is open (the modal
\* shown is not replaced), OpenSettings and OpenLastSettings are ignored
\* while a modal is open.
C26_OneOverlay ==
    /\ [](gui.modal = "None" \/ gui.settings_page = "None")
    /\ [][/\ gui'.modal # gui.modal /\ gui'.modal # "None" =>
               gui.modal = "None" /\ gui.settings_page = "None"
          /\ gui'.settings_page # gui.settings_page /\ gui'.settings_page # "None" =>
               gui.modal = "None" /\ gui'.modal = "None"
          /\ \A modal \in Modals :
               ShowModal(modal) /\ (gui.modal # "None" \/ gui.settings_page # "None")
                   => gui' = gui
          /\ \A settings_page \in SettingsPages :
               OpenSettings(settings_page) /\ gui.modal # "None" => gui' = gui
          /\ OpenLastSettings /\ gui.modal # "None" => gui' = gui]_vars

\* a modal is shown after a settings page had been opened and closed
C26_Witness ==
    /\ gui.modal = "ClearAll"
    /\ gui.settings_page = "None"
    /\ gui.last_opened_setting = "General"

\* ------------------------------------------------------ the favorite hosts
\* the hosts a user marks and unmarks: one the capture resolves, two others
FavoriteCandidates ==
    {NewHost(Remote1, RDnsFound(Remote1)),
     NewHost(Peer4, RDnsLiteral(Peer4)),
     NewHost(Lo4, RDnsLiteral(Lo4))}

FavoritesProbe == [op |-> "favorites", last |-> [h \in FavoriteCandidates |-> "none"]]

\* a capture after its first frame, the messages of each host recorded
InitFav == FirstFrameBooked /\ probe = FavoritesProbe

NextFav ==
    \/ \E host \in FavoriteCandidates, add \in BOOLEAN : AddOrRemoveFavorite(host, add)
    \/ PacketCalls(Keys, {1}, {0})
    \/ Resolution

SpecFav == InitFav /\ [][NextFav]_vars

LastAdded == {h \in FavoriteCandidates : probe.last[h] = "add"}

\* C27: after any sequence of AddOrRemoveFavorite messages favorite_hosts is
\* exactly the set of hosts whose last message was an add; adding a host
\* that is present or removing one that is absent leaves the set unchanged,
\* and a message changes the membership of no other host.
C27_FavoriteSet ==
    /\ [](FavoriteHosts = LastAdded)
    /\ [][\A host \in FavoriteCandidates, add \in BOOLEAN :
            AddOrRemoveFavorite(host, add) =>
              /\ \A h \in FavoriteCandidates \ {host} :
                    h \in info_traffic'.favorite_hosts <=> h \in FavoriteHosts
              /\ (host \in FavoriteHosts <=> add) =>
                    info_traffic'.favorite_hosts = FavoriteHosts]_vars

\* the resolved host was added and removed again, another host is a
\* favorite and the third was never marked
C27_Witness ==
    /\ probe.last[NewHost(Remote1, RDnsFound(Remote1))] = "remove"
    /\ NewHost(Remote1, RDnsFound(Remote1)) \in DOMAIN Hosts
    /\ probe.last[NewHost(Peer4, RDnsLiteral(Peer4))] = "add"
    /\ probe.last[NewHost(Lo4, RDnsLiteral(Lo4))] = "none"
    /\ FavoriteHosts = {NewHost(Peer4, RDnsLiteral(Peer4))}

\* C28: SwitchPage(next) moves the settings page to its next or previous one
\* when a settings page is open and no modal is shown, and leaves
\* running_page as it is; with no overlay it moves running_page, only when
\* the page is Overview, Inspect or Notifications and packets have been
\* counted; on the initial page, under a modal, or when the window has just
\* been focused it changes nothing.
C28_SwitchPage ==
    [][\A next \in BOOLEAN : SwitchPage(next) =>
          IF ~gui.focus_elapsed \/ gui.modal # "None"
          THEN gui' = gui /\ running_page' = running_page
          ELSE IF gui.settings_page # "None"
          THEN /\ running_page' = running_page
               /\ gui'.settings_page # gui.settings_page
               /\ gui'.settings_page =
                    IF next THEN SettingsPageNext(gui.settings_page)
                    ELSE SettingsPagePrevious(gui.settings_page)
               /\ gui'.modal = "None"
          ELSE IF /\ running_page \in {"Overview", "Inspect", "Notifications"}
                  /\ gui.runtime_data.tot_packets > 0
          THEN /\ running_page' # running_page
               /\ running_page' =
                    IF next THEN RunningPageNext(running_page)
                    ELSE RunningPagePrevious(running_page)
               /\ gui'.settings_page = "None" /\ gui'.modal = "None"
          ELSE gui' = gui /\ running_page' = running_page]_vars

\* packets are counted, a running page other than the first is shown and a
\* settings page other than the last opened is open, the focus timeout over
C28_Witness ==
    /\ gui.runtime_data.tot_packets > 0
    /\ running_page = "Inspect"
    /\ gui.settings_page = "Appearance"
    /\ gui.last_opened_setting = "Notifications"
    /\ gui.focus_elapsed

\* C29: CloseSettings with a settings page open stores the page in
\* last_opened_setting and closes it, and with none open changes nothing;
\* OpenLastSettings with no modal and no page open opens the page last
\* closed. last_opened_setting changes at a close only: OpenSettings while
\* a page is open leaves it as it is.
C29_LastOpenedSetting ==
    [][/\ CloseSettings =>
            IF gui.settings_page # "None"
            THEN gui' = [gui EXCEPT !.last_opened_setting = gui.settings_page,
                                    !.settings_page = "None"]
            ELSE gui' = gui
       /\ OpenLastSettings /\ gui.modal = "None" /\ gui.settings_page = "None" =>
            gui'.settings_page = gui.last_opened_setting
       /\ gui'.last_opened_setting # gui.last_opened_setting =>
            /\ gui.settings_page # "None"
            /\ gui'.settings_page = "None"
            /\ gui'.last_opened_setting = gui.settings_page
       /\ \A settings_page \in SettingsPages : OpenSettings(settings_page) =>
            gui'.last_opened_setting = gui.last_opened_setting]_vars

\* General was closed, then the settings were opened again and moved to
\* another page
C29_Witness ==
    /\ gui.last_opened_setting = "General"
    /\ gui.settings_page = "Appearance"
    /\ gui.modal = "None"

\* C30: the waiting string is "." at first and goes from "." to "..", to
\* "..." and back to "." on successive Waiting messages: it always holds
\* 1 to 3 dots and is never empty.
C30_WaitingDots ==
    /\ [](/\ Len(gui.waiting) \in 1..3
          /\ \A i \in 1..Len(gui.waiting) : gui.waiting[i] = ".")
    /\ [][/\ MessageWaiting =>
               Len(gui'.waiting) = IF Len(gui.waiting) = 3 THEN 1
                                   ELSE Len(gui.waiting) + 1
          /\ gui'.waiting # gui.waiting =>
               Len(gui'.waiting) = (Len(gui.waiting) % 3) + 1]_vars

\* three dots are shown
C30_Witness == gui.waiting = <<".", ".", ".">>

\* ------------------------------------------------- the table of the ports
\* no port, the ports of the table and their neighbours, and ports far from it
PortInputs ==
    {NoPort, 0, 500, 8081, 50000, 65535}
        \cup UNION {{p - 1, p, p + 1} : p \in UNION {r.ports : r \in WellKnownPorts}}

PortProbes == [op : {"from_port"}, port : PortInputs, out : {"pending"}]

InitPort == MainInit /\ probe \in PortProbes

ApplyFromPort ==
    /\ probe.op = "from_port"
    /\ probe.out = "pending"
    /\ probe' = [probe EXCEPT !.out = from_port_to_application_protocol(probe.port)]
    /\ UNCHANGED <<gui, running_page, pcap_error, current_capture_id, info_traffic,
                   info_lock, device_addresses, clock, threads, lookups, taken,
                   spawned, applied, attributed>>

NextPort == ApplyFromPort

SpecPort == InitPort /\ [][NextPort]_vars

PortDone == probe.op = "from_port" /\ probe.out # "pending"
PortRows == {r \in WellKnownPorts : probe.port \in r.ports}

C32_FavoriteFlag ==
    \A h \in DOMAIN Hosts : Hosts[h].is_favorite <=> h \in FavoriteHosts

\* -------------------------------------------- the direction of a new entry
\* C33: every entry inserted into the map carries the direction computed by
\* get_traffic_direction for its first packet: under no interleaving of
\* modify_or_insert_in_map with another call or with Start is an entry
\* inserted with the default direction without the rule having been
\* evaluated by the inserting call.
C33_DirectionComputed ==
    [][\A t \in Threads :
          ApplyStep(t) /\ threads[t].pkt.key \notin DOMAIN Entries =>
            LET key == threads[t].pkt.key IN
            /\ threads[t].pkt.first
            /\ \E my_interface_addresses \in DeviceLists :
                 info_traffic'.map[key].traffic_direction =
                    get_traffic_direction(key.address1, key.address2, key.port1,
                                          key.port2, my_interface_addresses)]_vars

\* C34: every Host in favorites_last_interval is in favorite_hosts: after
\* AddOrRemoveFavorite(h, false) h is no longer in favorites_last_interval,
\* before the next refresh tick already.
C34_LastIntervalFavorite == LastInterval \subseteq FavoriteHosts

\* ------------------------------------------------------ the order of locks
\* the mutexes, and the lock() calls and guard drops of each code path in
\* the order the path performs them
Mutexes == {"info_traffic", "configs", "addresses", "current_capture_id"}
LockThreads == {"ui", "capture", "lookup"}

Lock(m) == [do |-> "lock", mutex |-> m]
Drop(m) == [do |-> "drop", mutex |-> m]
Alone(m) == <<Lock(m), Drop(m)>>

\* a refresh whose first guard lives to the end of the function
refresh_data_locks_guard_kept ==
    <<Lock("info_traffic"), Lock("configs"), Lock("info_traffic"),
      Drop("info_traffic"), Drop("configs"), Drop("info_traffic")>>

\* refresh_data with packets counted: the guard of line 309 is dropped at
\* 321; the configs guard of line 324 is a temporary of the statement that
\* calls notify_and_log, which locks the InfoTraffic; then lines 327-338
refresh_data_locks ==
    Alone("info_traffic")
      \o <<Lock("configs"), Lock("info_traffic"), Drop("info_traffic"), Drop("configs")>>
      \o Alone("info_traffic") \o Alone("configs") \o Alone("configs")

\* refresh_data without packets (309-313), add_or_remove_favorite and
\* reset_button_pressed hold the InfoTraffic alone
info_traffic_locks == Alone("info_traffic")

\* start: set_adapter (419-421), line 372, line 376
start_locks == Alone("addresses") \o Alone("info_traffic") \o Alone("configs")

\* reset: line 407
reset_locks == Alone("current_capture_id")

\* the messages that write a setting lock the configs in one statement
configs_locks == Alone("configs")

UiPaths ==
    {refresh_data_locks, info_traffic_locks, start_locks, reset_locks,
     configs_locks}

\* parse_packets reads the capture id, then modify_or_insert_in_map: the
\* guard of the condition of line 176 is dropped before the block, the
\* addresses are locked at 183-185 for a new key, the InfoTraffic at 202-247
modify_or_insert_in_map_locks(first) ==
    Alone("current_capture_id") \o Alone("info_traffic")
      \o (IF first THEN Alone("addresses") ELSE <<>>)
      \o Alone("info_traffic")

\* reverse_dns_lookup: line 259, then 289-317
reverse_dns_lookup_locks == Alone("addresses") \o Alone("info_traffic")

PathsOf(th) ==
    IF th = "ui" THEN UiPaths
    ELSE IF th = "capture" THEN {modify_or_insert_in_map_locks(first) : first \in BOOLEAN}
    ELSE {reverse_dns_lookup_locks}

LocksProbe ==
    [op |-> "locks",
     code |-> [th \in LockThreads |-> <<>>],
     pc |-> [th \in LockThreads |-> 1],
     holder |-> [m \in Mutexes |-> "free"],
     nested |-> {}]

InitLocks == MainInit /\ probe = LocksProbe

OtherUnchanged ==
    UNCHANGED <<gui, running_page, pcap_error, current_capture_id, info_traffic,
                info_lock, device_addresses, clock, threads, lookups, taken,
                spawned, applied, attributed>>

Running(q, th) == q.pc[th] <= Len(q.code[th])
Instruction(q, th) == q.code[th][q.pc[th]]
HeldBy(q, th) == {m \in Mutexes : q.holder[m] = th}

\* a thread enters one of its code paths
PathBegins(th) ==
    /\ probe.op = "locks"
    /\ ~Running(probe, th)
    /\ \E path \in PathsOf(th) :
         probe' = [probe EXCEPT !.code[th] = path, !.pc[th] = 1]
    /\ OtherUnchanged

\* Mutex::lock returns once the mutex is free
LockTaken(th) ==
    /\ probe.op = "locks"
    /\ Running(probe, th)
    /\ Instruction(probe, th).do = "lock"
    /\ LET m == Instruction(probe, th).mutex IN
       /\ probe.holder[m] = "free"
       /\ probe' = [probe EXCEPT
             !.holder[m] = th,
             !.pc[th] = @ + 1,
             !.nested = @ \cup {<<held, m>> : held \in HeldBy(probe, th)}]
    /\ OtherUnchanged

\* the guard goes out of scope
GuardDropped(th) ==
    /\ probe.op = "locks"
    /\ Running(probe, th)
    /\ Instruction(probe, th).do = "drop"
    /\ probe' = [probe EXCEPT
          !.holder[Instruction(probe, th).mutex] = "free",
          !.pc[th] = @ + 1]
    /\ OtherUnchanged

NextLocks ==
    \/ \E th \in LockThreads : PathBegins(th)
    \/ \E th \in LockThreads : LockTaken(th)
    \/ \E th \in LockThreads : GuardDropped(th)

SpecLocks == InitLocks /\ [][NextLocks]_vars

\* the mutex a thread is about to lock, and the thread that holds it
Wanted(th) ==
    IF th \in LockThreads /\ Running(probe, th) /\ Instruction(probe, th).do = "lock"
    THEN Instruction(probe, th).mutex ELSE "none"

WaitsFor(th) == IF Wanted(th) = "none" THEN "free" ELSE probe.holder[Wanted(th)]

\* C35: the UI thread, the capture thread and the resolution threads never
\* deadlock on the configs, InfoTraffic and device-addresses mutexes: no
\* thread locks a mutex it holds, no two mutexes are locked nested in both
\* orders, and some thread can always go on.
C35_NoDeadlock ==
    /\ \A th \in LockThreads : WaitsFor(th) # th
    /\ \A th \in LockThreads :
         /\ WaitsFor(WaitsFor(th)) # th
         /\ WaitsFor(WaitsFor(WaitsFor(th))) # th
    /\ \A pair \in probe.nested : <<pair[2], pair[1]>> \notin probe.nested
    /\ \E th \in LockThreads : WaitsFor(th) = "free"

\* the UI thread holds the configs and waits for the InfoTraffic, which the
\* capture thread holds while a resolution waits for it too
C35_Witness ==
    /\ probe.holder["configs"] = "ui"
    /\ Wanted("ui") = "info_traffic"
    /\ probe.holder["info_traffic"] = "capture"
    /\ Wanted("lookup") = "info_traffic"

\* --------------------------------------------------- the ICMP types of an entry
\* One capture thread after the first Start; the frames are ICMP messages of
\* two types between one pair of addresses, and TCP segments of Key1.
IcmpTypes == {"V4 EchoRequest", "V4 EchoReply"}

NextIcmp ==
    \/ \E t \in Threads :
         NextPacketOf(t, {KeyIcmp, Key1}, {1}, {0}, MacInputs, AppInputs, IcmpTypes)
    \/ \E t \in Threads : MoCheck(t)
    \/ \E t \in Threads : MoDeviceList(t)
    \/ \E t \in Threads : MoApply(t)
    \/ \E t \in Threads : PpBook(t)

SpecIcmp == InitFrame /\ [][NextIcmp]_vars

RECURSIVE CountSum(_)
CountSum(f) ==
    IF DOMAIN f = {} THEN 0
    ELSE LET x == CHOOSE y \in DOMAIN f : TRUE
         IN f[x] + CountSum(Remove(f, x))

CountOf(f, x) == IF x \in DOMAIN f THEN f[x] ELSE 0

\* C36: the counts in icmp_types of an ICMP entry sum to its
\* transmitted_packets, and each call adds exactly 1 to the count of its ICMP
\* type and leaves the other counts alone; the icmp_types of a TCP or UDP
\* entry is empty.
C36_IcmpTypes ==
    /\ [](\A key \in DOMAIN Entries :
            IF key.protocol = "ICMP"
            THEN CountSum(Entries[key].icmp_types) = Entries[key].transmitted_packets
            ELSE Entries[key].icmp_types = EmptyMap)
    /\ [][\A t \in Threads :
            ApplyStep(t) /\ threads[t].pkt.key.protocol = "ICMP" =>
              LET key == threads[t].pkt.key
                  before == IF key \in DOMAIN Entries
                            THEN Entries[key].icmp_types ELSE EmptyMap
                  after == info_traffic'.map[key].icmp_types
              IN \A type \in IcmpTypes :
                   CountOf(after, type) =
                     CountOf(before, type) + IF type = threads[t].pkt.icmp THEN 1 ELSE 0]_vars

\* an ICMP entry with two messages of one type and one of the other
C36_Witness ==
    /\ KeyIcmp \in DOMAIN Entries
    /\ \E type \in IcmpTypes :
         /\ CountOf(Entries[KeyIcmp].icmp_types, type) = 2
         /\ \E other \in IcmpTypes \ {type} :
              CountOf(Entries[KeyIcmp].icmp_types, other) = 1

\* C37: while the Notifications page is shown no notification is unread:
\* ChangeRunningPage and switch_page into it reset the counter, and
\* refresh_data counts the notifications of a tick as unread only while
\* another page is shown.
C37_NoUnreadOnNotifications ==
    running_page = "Notifications" => gui.unread_notifications = 0

\* a notification was logged and the Notifications page is shown
C37_Witness ==
    /\ running_page = "Notifications"
    /\ gui.runtime_data.logged_notifications > 0
    /\ gui.unread_notifications = 0

\* ------------------------------------------------- the pages of the results
\* The program after its first frame, with the messages that write
\* page_number. A panic of the handler is recorded in the probe.
MaxPage == 3        \* UpdatePageNumber(true) is handled while page_number < MaxPage

\* get_searched_entries(self).1: the number of entries the search matches
ResultCounts == {0, 1, 20, 21, 40, 41}

PagesProbe == [op |-> "pages", panicked |-> FALSE]

InitPage == FirstFrameBooked /\ probe = PagesProbe

PageUnchanged ==
    UNCHANGED <<pcap_error, current_capture_id, info_traffic, info_lock,
                device_addresses, clock, threads, lookups, taken, spawned,
                applied, attributed>>

\* usize::checked_add(1) and usize::checked_sub(1), below usize::MAX
checked_add_one(n) == [some |-> TRUE, value |-> n + 1]
checked_sub_one(n) == IF n = 0 THEN [some |-> FALSE, value |-> 0]
                      ELSE [some |-> TRUE, value |-> n - 1]

\* the arm of Message::UpdatePageNumber(increment): unwrap panics on None
update_page_number(g, q, increment) ==
    LET new_page == IF increment THEN checked_add_one(g.page_number)
                    ELSE checked_sub_one(g.page_number)
    IN IF new_page.some
       THEN [gui |-> [g EXCEPT !.page_number = new_page.value], probe |-> q]
       ELSE [gui |-> g, probe |-> [q EXCEPT !.panicked = TRUE]]

\* the arm of Message::ArrowPressed(increment), which hands the message on
arrow_pressed(g, q, page, increment, results) ==
    IF page = "Inspect" /\ g.settings_page = "None" /\ g.modal = "None"
    THEN IF increment
         THEN IF g.page_number < (results + 20 - 1) \div 20
              THEN update_page_number(g, q, increment)
              ELSE [gui |-> g, probe |-> q]
         ELSE IF g.page_number > 1
              THEN update_page_number(g, q, increment)
              ELSE [gui |-> g, probe |-> q]
    ELSE [gui |-> g, probe |-> q]

\* Message::Search(parameters), sent by the filters of the Inspect page
Search ==
    /\ running_page # "Init"
    /\ gui' = [gui EXCEPT !.page_number = 1]
    /\ running_page' = "Inspect"
    /\ UNCHANGED probe
    /\ PageUnchanged

\* Message::UpdatePageNumber(increment), handled while the Inspect page is shown
UpdatePageNumber(increment) ==
    /\ running_page = "Inspect"
    /\ gui.settings_page = "None" /\ gui.modal = "None"
    /\ increment => gui.page_number < MaxPage
    /\ LET updated == update_page_number(gui, probe, increment)
       IN gui' = updated.gui /\ probe' = updated.probe
    /\ UNCHANGED running_page
    /\ PageUnchanged

\* Message::ArrowPressed(increment)
ArrowPressed(increment) ==
    /\ running_page # "Init"
    /\ \E results \in ResultCounts :
         LET updated == arrow_pressed(gui, probe, running_page, increment, results)
         IN gui' = updated.gui /\ probe' = updated.probe
    /\ UNCHANGED running_page
    /\ PageUnchanged

\* the messages of a session; nothing is handled after a panic
NextPage ==
    \/ ~probe.panicked /\ Start
    \/ ~probe.panicked /\ Reset
    \/ ~probe.panicked /\ \E t \in Threads : ThreadExit(t)
    \/ ~probe.panicked /\ \E modal \in Modals : ShowModal(modal)
    \/ ~probe.panicked /\ HideModal
    \/ ~probe.panicked /\ \E settings_page \in SettingsPages : OpenSettings(settings_page)
    \/ ~probe.panicked /\ CloseSettings
    \/ ~probe.panicked /\ \E page \in RunningPages : ChangeRunningPage(page)
    \/ ~probe.panicked /\ Search
    \/ ~probe.panicked /\ \E increment \in BOOLEAN : UpdatePageNumber(increment)
    \/ ~probe.panicked /\ \E increment \in BOOLEAN : ArrowPressed(increment)

SpecPage == InitPage /\ [][NextPage]_vars

\* C38: after any sequence of messages page_number is at least 1 and no
\* message handler has panicked on the page arithmetic.
C38_PageNumber == gui.page_number >= 1 /\ ~probe.panicked

=============================================================================
